---- MODULE Spec2Model ----
(***************************************************************************)
(* A state-machine model of the DSL workflow interpreter of dsl2/workflow.go *)
(* (SimpleDSLWorkflow and the execute methods of its statement kinds) with  *)
(* the activities of dsl2/activity.go.                                      *)
(*                                                                          *)
(* The interpreter runs on a cooperative scheduler: a coroutine runs until  *)
(* it blocks on an activity future, a sleep or a selector.  The variable    *)
(* cur holds the coroutine that is running (0: all are blocked and the      *)
(* dispatcher picks the next one).  Go maps are references: heap holds the  *)
(* maps and a coroutine holds the index of its bindings map.                *)
(***************************************************************************)
EXTENDS Integers, Sequences, FiniteSets, TLC

VARIABLES
    wf,         \* the Workflow value handed to SimpleDSLWorkflow
    started,    \* SimpleDSLWorkflow has been entered
    heap,       \* the allocated map[string]any values, by reference
    tasks,      \* the coroutines: 1 is the root, the others come from executeAsync
    cur,        \* the coroutine holding the scheduler, 0 when all are blocked
    log,        \* the activities handed to workflow.ExecuteActivity, in order
    sleeps,     \* number of workflow.Sleep requests
    nscopes,    \* number of contexts derived by workflow.WithCancel
    cancelled,  \* the derived contexts whose cancel function was called
    outcome,    \* what SimpleDSLWorkflow returned
    wlog,       \* history: every write <<map, key, coroutine>> to a map
    response    \* what the web UI answered to the request to execute wf

vars == <<wf, response, started, heap, tasks, cur, log, sleeps, nscopes, cancelled, outcome,
          wlog>>

(***************************************************************************)
(* Bounds of the model.                                                     *)
(***************************************************************************)
MaxBranches == 2
MaxItems == 3
MaxElements == 3
\* a While with MaxIters = 0 is followed for at most MaxLoop iterations
MaxLoop == 3

(***************************************************************************)
(* Dynamically typed values (Go's any), tagged by their dynamic type.       *)
(***************************************************************************)
NilV == [t |-> "nil", v |-> 0]
IntV(n) == [t |-> "int", v |-> n]
Int64V(n) == [t |-> "int64", v |-> n]
\* a float64 with the integral value n; NaN is the float64 that is no number
FloatV(n) == [t |-> "float", v |-> n]
NaN == [t |-> "float", v |-> 0, nan |-> TRUE]
IsNaN(x) == x.t = "float" /\ "nan" \in DOMAIN x
StrV(s) == [t |-> "str", v |-> s]
BoolV(b) == [t |-> "bool", v |-> b]
ListV(s) == [t |-> "list", v |-> s]
MapV(m) == [t |-> "map", v |-> m]

EmptyMap == [k \in {} |-> NilV]
Put(m, k, v) == [x \in (DOMAIN m) \cup {k} |-> IF x = k THEN v ELSE m[x]]

(***************************************************************************)
(* Errors.  e is the kind ("nil": no error), name the activity, variable or *)
(* message the error names, at the coroutine in which it arose.             *)
(***************************************************************************)
NoErr == [e |-> "nil", name |-> "", at |-> 0]
Err(kind, name, t) == [e |-> kind, name |-> name, at |-> t]
IsErr(x) == x.e # "nil"

(***************************************************************************)
(* The DSL.  A pointer is a tuple of length 0 (nil) or 1.                   *)
(***************************************************************************)
EmptyStatement ==
    [ID |-> "", Activity |-> <<>>, Sequence |-> <<>>, Parallel |-> <<>>,
     Map |-> <<>>, While |-> <<>>, If |-> <<>>]
EmptyValue == [Ref |-> "", Str |-> <<>>, Int |-> <<>>, Float |-> <<>>, Bool |-> <<>>]
EmptyCond == [Truthy |-> <<>>, Eq |-> <<>>, Ne |-> <<>>, Not |-> <<>>, Any |-> <<>>, All |-> <<>>]

RefVal(k) == [EmptyValue EXCEPT !.Ref = k]
StrVal(s) == [EmptyValue EXCEPT !.Str = <<s>>]
IntVal(n) == [EmptyValue EXCEPT !.Int = <<n>>]
FloatVal(n) == [EmptyValue EXCEPT !.Float = <<n>>]
BoolVal(b) == [EmptyValue EXCEPT !.Bool = <<b>>]

ActivityInvocation(name, args, result) ==
    [Name |-> name, Args |-> args, Result |-> result, Opts |-> <<>>]
ActivityStmt(name, args, result) ==
    <<[EmptyStatement EXCEPT !.Activity = <<ActivityInvocation(name, args, result)>>]>>
SequenceStmt(elements) ==
    <<[EmptyStatement EXCEPT !.Sequence = <<[Elements |-> elements]>>]>>
ParallelStmt(branches) ==
    <<[EmptyStatement EXCEPT !.Parallel = <<[Branches |-> branches]>>]>>
MapNode(itemsRef, itemVar, concurrency, body, collectVar, failFast) ==
    [ItemsRef |-> itemsRef, ItemVar |-> itemVar, Concurrency |-> concurrency,
     Body |-> body, CollectVar |-> collectVar, FailFast |-> failFast]
MapStmt(itemsRef, itemVar, concurrency, body, collectVar, failFast) ==
    <<[EmptyStatement EXCEPT
        !.Map = <<MapNode(itemsRef, itemVar, concurrency, body, collectVar, failFast)>>]>>
WhileStmt(cond, body, maxIters, sleepSeconds) ==
    <<[EmptyStatement EXCEPT
        !.While = <<[Cond |-> cond, Body |-> body, MaxIters |-> maxIters,
                     SleepSeconds |-> sleepSeconds]>>]>>
IfStmt(cond, then, else) ==
    <<[EmptyStatement EXCEPT !.If = <<[Cond |-> cond, Then |-> then, Else |-> else]>>]>>

Workflow(variables, root, concurrency) ==
    [Variables |-> variables, Root |-> root, Retry |-> <<>>, TimeoutSec |-> 0,
     Concurrency |-> concurrency]

\* the options of the DSL: seconds and counts are integers, the backoff
\* coefficient is modelled by an integer; Retry is a pointer
RetryPolicy(maxAttempts, initialIntervalSec, maxIntervalSec, backoffCoefficient) ==
    [MaxAttempts |-> maxAttempts, InitialIntervalSec |-> initialIntervalSec,
     MaxIntervalSec |-> maxIntervalSec, BackoffCoefficient |-> backoffCoefficient]
ActOpts(startToClose, scheduleToClose, heartbeat, retry) ==
    [StartToCloseSeconds |-> startToClose, ScheduleToCloseSeconds |-> scheduleToClose,
     HeartbeatSeconds |-> heartbeat, Retry |-> retry]

(***************************************************************************)
(* Workflow.validate and Statement.validate: the error message, "" for nil. *)
(***************************************************************************)
RECURSIVE validateStatement(_)
RECURSIVE validateAll(_, _)

\* mutant: only the first element is validated
validateAll_first(ps, i) ==
    IF i > Len(ps) \/ i > 1 THEN "" ELSE validateStatement(ps[i])

\* the first error of validating the pointers ps[i..], in order
validateAll(ps, i) ==
    IF i > Len(ps) THEN ""
    ELSE LET e == validateStatement(ps[i])
         IN IF e # "" THEN e ELSE validateAll(ps, i + 1)

validateStatement(p) ==
    IF Len(p) = 0 THEN "nil statement"
    ELSE
    LET s == p[1]
        cnt == Len(s.Activity) + Len(s.Sequence) + Len(s.Parallel)
               + Len(s.Map) + Len(s.While) + Len(s.If)
        eAct == IF Len(s.Activity) > 0 /\ s.Activity[1].Name = ""
                THEN "activity name required" ELSE ""
        eSeq == IF Len(s.Sequence) > 0 THEN validateAll(s.Sequence[1].Elements, 1) ELSE ""
        ePar == IF Len(s.Parallel) > 0 THEN validateAll(s.Parallel[1].Branches, 1) ELSE ""
        eMap == IF Len(s.Map) = 0 THEN ""
                ELSE IF Len(s.Map[1].Body) = 0 THEN "map body required"
                ELSE IF validateStatement(s.Map[1].Body) # ""
                     THEN validateStatement(s.Map[1].Body)
                ELSE IF s.Map[1].ItemsRef = "" THEN "map itemsRef required"
                ELSE ""
        eWhile == IF Len(s.While) = 0 THEN ""
                  ELSE IF Len(s.While[1].Body) = 0 THEN "while body required"
                  ELSE validateStatement(s.While[1].Body)
        eIf == IF Len(s.If) = 0 THEN ""
               ELSE IF Len(s.If[1].Then) = 0 THEN "if then branch required"
               ELSE IF validateStatement(s.If[1].Then) # ""
                    THEN validateStatement(s.If[1].Then)
               ELSE IF Len(s.If[1].Else) > 0 THEN validateStatement(s.If[1].Else)
               ELSE ""
    IN  IF cnt # 1 THEN "statement(id=" \o s.ID
                            \o ") must have exactly one of activity/sequence/parallel/map/while/if"
        ELSE IF eAct # "" THEN eAct
        ELSE IF eSeq # "" THEN eSeq
        ELSE IF ePar # "" THEN ePar
        ELSE IF eMap # "" THEN eMap
        ELSE IF eWhile # "" THEN eWhile
        ELSE eIf

\* mutant: only the root pointer is looked at
validate_rootOnly(w) == IF Len(w.Root) = 0 THEN "root statement is nil" ELSE ""

validate(w) ==
    IF Len(w.Root) = 0 THEN "root statement is nil"
    ELSE validateStatement(w.Root)

(***************************************************************************)
(* The web UI: the copy of the validator it carries, and the handler that   *)
(* answers a request to execute a workflow.                                 *)
(***************************************************************************)
RECURSIVE webui_validateStatement(_)
RECURSIVE webui_validateAll(_, _)

webui_validateAll(ps, i) ==
    IF i > Len(ps) THEN ""
    ELSE LET e == webui_validateStatement(ps[i])
         IN IF e # "" THEN e ELSE webui_validateAll(ps, i + 1)

\* mutant: the Else branch of an If is not validated
webui_validateStatement_noElse(p) ==
    IF Len(p) = 0 THEN "nil statement"
    ELSE
    LET s == p[1]
        cnt == Len(s.Activity) + Len(s.Sequence) + Len(s.Parallel)
               + Len(s.Map) + Len(s.While) + Len(s.If)
        eAct == IF Len(s.Activity) > 0 /\ s.Activity[1].Name = ""
                THEN "activity name required" ELSE ""
        eSeq == IF Len(s.Sequence) > 0 THEN webui_validateAll(s.Sequence[1].Elements, 1) ELSE ""
        ePar == IF Len(s.Parallel) > 0 THEN webui_validateAll(s.Parallel[1].Branches, 1) ELSE ""
        eMap == IF Len(s.Map) = 0 THEN ""
                ELSE IF Len(s.Map[1].Body) = 0 THEN "map body required"
                ELSE IF webui_validateStatement(s.Map[1].Body) # ""
                     THEN webui_validateStatement(s.Map[1].Body)
                ELSE IF s.Map[1].ItemsRef = "" THEN "map itemsRef required"
                ELSE ""
        eWhile == IF Len(s.While) = 0 THEN ""
                  ELSE IF Len(s.While[1].Body) = 0 THEN "while body required"
                  ELSE webui_validateStatement(s.While[1].Body)
        eIf == IF Len(s.If) = 0 THEN ""
               ELSE IF Len(s.If[1].Then) = 0 THEN "if then branch required"
               ELSE webui_validateStatement(s.If[1].Then)
    IN  IF cnt # 1 THEN "statement must have exactly one of activity/sequence/parallel/map/while/if"
        ELSE IF eAct # "" THEN eAct
        ELSE IF eSeq # "" THEN eSeq
        ELSE IF ePar # "" THEN ePar
        ELSE IF eMap # "" THEN eMap
        ELSE IF eWhile # "" THEN eWhile
        ELSE eIf

webui_validateStatement(p) ==
    IF Len(p) = 0 THEN "nil statement"
    ELSE
    LET s == p[1]
        cnt == Len(s.Activity) + Len(s.Sequence) + Len(s.Parallel)
               + Len(s.Map) + Len(s.While) + Len(s.If)
        eAct == IF Len(s.Activity) > 0 /\ s.Activity[1].Name = ""
                THEN "activity name required" ELSE ""
        eSeq == IF Len(s.Sequence) > 0 THEN webui_validateAll(s.Sequence[1].Elements, 1) ELSE ""
        ePar == IF Len(s.Parallel) > 0 THEN webui_validateAll(s.Parallel[1].Branches, 1) ELSE ""
        eMap == IF Len(s.Map) = 0 THEN ""
                ELSE IF Len(s.Map[1].Body) = 0 THEN "map body required"
                ELSE IF webui_validateStatement(s.Map[1].Body) # ""
                     THEN webui_validateStatement(s.Map[1].Body)
                ELSE IF s.Map[1].ItemsRef = "" THEN "map itemsRef required"
                ELSE ""
        eWhile == IF Len(s.While) = 0 THEN ""
                  ELSE IF Len(s.While[1].Body) = 0 THEN "while body required"
                  ELSE webui_validateStatement(s.While[1].Body)
        eIf == IF Len(s.If) = 0 THEN ""
               ELSE IF Len(s.If[1].Then) = 0 THEN "if then branch required"
               ELSE IF webui_validateStatement(s.If[1].Then) # ""
                    THEN webui_validateStatement(s.If[1].Then)
               ELSE IF Len(s.If[1].Else) > 0 THEN webui_validateStatement(s.If[1].Else)
               ELSE ""
    IN  IF cnt # 1 THEN "statement must have exactly one of activity/sequence/parallel/map/while/if"
        ELSE IF eAct # "" THEN eAct
        ELSE IF eSeq # "" THEN eSeq
        ELSE IF ePar # "" THEN ePar
        ELSE IF eMap # "" THEN eMap
        ELSE IF eWhile # "" THEN eWhile
        ELSE eIf

webui_validate(w) ==
    IF Len(w.Root) = 0 THEN "root statement is nil"
    ELSE webui_validateStatement(w.Root)

\* handleExecuteWorkflow of a server without a Temporal client, from the
\* parsed workflow on: the validation error, or the answer "validated"
handleExecuteWorkflow ==
    /\ ~started /\ ~response.handled
    /\ response' = LET e == webui_validate(wf)
                   IN IF e # ""
                      THEN [handled |-> TRUE, Success |-> FALSE,
                            Error |-> "Workflow validation error: " \o e]
                      ELSE [handled |-> TRUE, Success |-> TRUE, Error |-> ""]
    /\ UNCHANGED <<wf, started, heap, tasks, cur, log, sleeps, nscopes, cancelled, outcome,
                   wlog>>

\* mutant: a ref that is not bound evaluates to nil instead of failing
evalValue_unboundIsNil(v, b) ==
    IF v.Ref # "" THEN
        [ok |-> TRUE, val |-> IF v.Ref \in DOMAIN b THEN b[v.Ref] ELSE NilV, err |-> ""]
    ELSE IF Len(v.Str) > 0 THEN [ok |-> TRUE, val |-> StrV(v.Str[1]), err |-> ""]
    ELSE IF Len(v.Int) > 0 THEN [ok |-> TRUE, val |-> Int64V(v.Int[1]), err |-> ""]
    ELSE IF Len(v.Float) > 0 THEN [ok |-> TRUE, val |-> FloatV(v.Float[1]), err |-> ""]
    ELSE IF Len(v.Bool) > 0 THEN [ok |-> TRUE, val |-> BoolV(v.Bool[1]), err |-> ""]
    ELSE [ok |-> FALSE, val |-> NilV, err |-> "empty value"]

(***************************************************************************)
(* evalValue: a ref is looked up, otherwise the literal of the first set    *)
(* field.                                                                   *)
(***************************************************************************)
evalValue(v, b) ==
    IF v.Ref # "" THEN
        IF v.Ref \in DOMAIN b THEN [ok |-> TRUE, val |-> b[v.Ref], err |-> ""]
        ELSE [ok |-> FALSE, val |-> NilV, err |-> "ref not found"]
    ELSE IF Len(v.Str) > 0 THEN [ok |-> TRUE, val |-> StrV(v.Str[1]), err |-> ""]
    ELSE IF Len(v.Int) > 0 THEN [ok |-> TRUE, val |-> Int64V(v.Int[1]), err |-> ""]
    ELSE IF Len(v.Float) > 0 THEN [ok |-> TRUE, val |-> FloatV(v.Float[1]), err |-> ""]
    ELSE IF Len(v.Bool) > 0 THEN [ok |-> TRUE, val |-> BoolV(v.Bool[1]), err |-> ""]
    ELSE [ok |-> FALSE, val |-> NilV, err |-> "empty value"]

\* the loop of ActivityInvocation.execute over a.Args: the values, or the first error
RECURSIVE evalArgs_skipFailed(_, _, _, _)
\* mutant: an argument whose evaluation fails is left out
evalArgs_skipFailed(args, b, i, acc) ==
    IF i > Len(args) THEN [ok |-> TRUE, vals |-> acc, err |-> ""]
    ELSE LET r == evalValue(args[i], b)
         IN evalArgs_skipFailed(args, b, i + 1, IF r.ok THEN Append(acc, r.val) ELSE acc)

RECURSIVE evalArgs(_, _, _, _)
evalArgs(args, b, i, acc) ==
    IF i > Len(args) THEN [ok |-> TRUE, vals |-> acc, err |-> ""]
    ELSE LET r == evalValue(args[i], b)
         IN IF ~r.ok THEN [ok |-> FALSE, vals |-> acc, err |-> r.err]
            ELSE evalArgs(args, b, i + 1, Append(acc, r.val))

(***************************************************************************)
(* The registered activities (dsl2/activity.go).  An invocation whose       *)
(* arguments do not decode into the parameter types, or whose name is not   *)
(* registered, fails on the substrate.                                      *)
(***************************************************************************)
IsNum(x) == x.t \in {"int", "int64"} \/ (x.t = "float" /\ ~IsNaN(x))

DoA(args) ==
    IF Len(args) = 1 /\ IsNum(args[1])
    THEN [ok |-> TRUE, val |-> StrV("A:" \o ToString(args[1].v))]
    ELSE [ok |-> FALSE, val |-> NilV]

DoB(args) ==
    IF Len(args) = 1 /\ IsNum(args[1])
    THEN [ok |-> TRUE, val |-> StrV("B:" \o ToString(args[1].v))]
    ELSE [ok |-> FALSE, val |-> NilV]

DoC(args) ==
    IF Len(args) = 2 /\ args[1].t = "str" /\ args[2].t = "str"
    THEN [ok |-> TRUE, val |-> StrV("C(" \o args[1].v \o "+" \o args[2].v \o ")")]
    ELSE [ok |-> FALSE, val |-> NilV]

Fetch(args) ==
    IF Len(args) = 1 /\ args[1].t = "str"
    THEN [ok |-> TRUE, val |-> StrV("content-of-" \o args[1].v)]
    ELSE [ok |-> FALSE, val |-> NilV]

MockApprove(args) ==
    IF Len(args) = 0 THEN [ok |-> TRUE, val |-> BoolV(TRUE)]
    ELSE [ok |-> FALSE, val |-> NilV]

Activities(name, args) ==
    CASE name = "DoA" -> DoA(args)
      [] name = "DoB" -> DoB(args)
      [] name = "DoC" -> DoC(args)
      [] name = "Fetch" -> Fetch(args)
      [] name = "MockApprove" -> MockApprove(args)
      [] OTHER -> [ok |-> FALSE, val |-> NilV]

(***************************************************************************)
(* Coroutines and their call stacks.                                        *)
(*   st: "new" (spawned, not yet run), "run", "act" (blocked on an activity *)
(*   future), "sel" (blocked in Selector.Select), "sleep", "done", "panic". *)
(*   ret: the error returned by the statement that returned last.           *)
(*   bm: the bindings map the coroutine executes on; scopes: the derived    *)
(*   cancel contexts its context descends from.                             *)
(***************************************************************************)
TaskIds == 1..Len(tasks)
Top(t) == tasks[t].stack[Len(tasks[t].stack)]
Bindings(t) == heap[tasks[t].bm]

Running(t) == cur = t /\ tasks[t].st = "run" /\ Len(tasks[t].stack) > 0
At(t, k, pc) == Running(t) /\ Top(t).k = k /\ Top(t).pc = pc

SetTop(ts, t, f) == [ts EXCEPT ![t].stack[Len(ts[t].stack)] = f]
Push(ts, t, f) == [ts EXCEPT ![t].stack = Append(@, f)]
\* a statement's execute returns e to its caller
Return(ts, t, e) == [ts EXCEPT ![t].stack = SubSeq(@, 1, Len(@) - 1), ![t].ret = e]

\* by, op, idx and obs are history: the coroutine whose Parallel or Map (op)
\* spawned this one, the index of the branch or item, and the position at
\* which the selector of the spawner ran its callback (0: not yet); trace is
\* the history of what the If and While statements of the coroutine did:
\* "T", "F", "E" for a condition evaluated to true, to false, or with an
\* error, "then", "else", "body" for the statement executed, "sleep" for
\* the call of workflow.Sleep and "woke" or "canceled" for what it returned
NewTask(p, bm, scopes, by, op, idx) ==
    [stack |-> <<[k |-> "Async", pc |-> "call", st |-> p]>>,
     bm |-> bm, scopes |-> scopes, st |-> "new", ret |-> NoErr,
     by |-> by, op |-> op, idx |-> idx, obs |-> 0, trace |-> <<>>]

\* Statement.execute: the switch over the variants, in the order of the source.
\* A nil receiver is a nil-pointer dereference (the coroutine panics).
Statement_execute(ts, t, p) ==
    LET s == p[1] IN
    IF Len(p) = 0 THEN [ts EXCEPT ![t].st = "panic"]
    ELSE IF Len(s.Activity) > 0 THEN
        Push(ts, t, [k |-> "Activity", pc |-> "start", a |-> s.Activity[1], args |-> <<>>])
    ELSE IF Len(s.Sequence) > 0 THEN
        Push(ts, t, [k |-> "Sequence", pc |-> "loop", s |-> s.Sequence[1], i |-> 1])
    ELSE IF Len(s.Parallel) > 0 THEN
        Push(ts, t, [k |-> "Parallel", pc |-> "start", p |-> s.Parallel[1], sel |-> <<>>,
                     results |-> <<>>, completed |-> 0, r |-> 0, todo |-> {},
                     pre |-> EmptyMap])
    ELSE IF Len(s.Map) > 0 THEN
        Push(ts, t, [k |-> "Map", pc |-> "start", m |-> s.Map[1], items |-> <<>>,
                     itemVar |-> "", window |-> 0, scope |-> 0, inflight |-> 0,
                     next |-> 0, sel |-> <<>>, allResults |-> <<>>, completed |-> 0,
                     ri |-> 1, successResults |-> <<>>, collected |-> <<>>,
                     firstErr |-> NoErr, collectVars |-> {}, r |-> 0, todo |-> {},
                     picked |-> {}])
    ELSE IF Len(s.While) > 0 THEN
        Push(ts, t, [k |-> "While", pc |-> "loop", w |-> s.While[1], iter |-> 0])
    ELSE IF Len(s.If) > 0 THEN
        Push(ts, t, [k |-> "If", pc |-> "start", i |-> s.If[1]])
    ELSE [ts EXCEPT ![t].ret = Err("invalid statement: empty", "", t)]

(***************************************************************************)
(* SimpleDSLWorkflow: copy the variables, validate, execute the root.       *)
(***************************************************************************)
\* mutant: the root is executed without the validation
SimpleDSLWorkflow_unchecked ==
    /\ ~started
    /\ started' = TRUE
    /\ heap' = <<wf.Variables>>
    /\ tasks' = Statement_execute(
                    <<[stack |-> <<[k |-> "Root", pc |-> "ret"]>>, bm |-> 1,
                       scopes |-> {}, st |-> "run", ret |-> NoErr,
                       by |-> 0, op |-> "", idx |-> 0, obs |-> 0, trace |-> <<>>]>>, 1, wf.Root)
    /\ cur' = 1
    /\ UNCHANGED <<wf, response, log, sleeps, nscopes, cancelled, wlog, outcome>>

SimpleDSLWorkflow ==
    /\ ~started
    /\ started' = TRUE
    /\ heap' = <<wf.Variables>>
    /\ LET err == validate(wf) IN
       IF err # ""
       THEN /\ outcome' = [done |-> TRUE, err |-> Err(err, "", 0), bindings |-> 0]
            /\ tasks' = <<>>
            /\ cur' = 0
       ELSE /\ tasks' = Statement_execute(
                    <<[stack |-> <<[k |-> "Root", pc |-> "ret"]>>, bm |-> 1,
                       scopes |-> {}, st |-> "run", ret |-> NoErr,
                       by |-> 0, op |-> "", idx |-> 0, obs |-> 0, trace |-> <<>>]>>, 1, wf.Root)
            /\ cur' = 1
            /\ UNCHANGED outcome
    /\ UNCHANGED <<wf, response, log, sleeps, nscopes, cancelled, wlog>>

SimpleDSLWorkflow_return ==
    /\ started /\ Len(tasks) > 0
    /\ At(1, "Root", "ret")
    /\ outcome' = IF IsErr(tasks[1].ret)
                  THEN [done |-> TRUE, err |-> tasks[1].ret, bindings |-> 0]
                  ELSE [done |-> TRUE, err |-> NoErr, bindings |-> tasks[1].bm]
    /\ tasks' = [tasks EXCEPT ![1].st = "done", ![1].stack = <<>>]
    /\ cur' = 0
    /\ UNCHANGED <<wf, response, started, heap, log, sleeps, nscopes, cancelled, wlog>>

(***************************************************************************)
(* executeAsync: the coroutine body runs st.execute and sets the future.    *)
(***************************************************************************)
\* The dispatcher runs the coroutines in the order of their creation, so a new
\* coroutine starts once the ones created before it have started.
executeAsync_run(t) ==
    /\ cur = 0 /\ tasks[t].st = "new"
    /\ \A u \in 1..(t - 1) : tasks[u].st # "new"
    /\ tasks' = Statement_execute(
                    [tasks EXCEPT ![t].st = "run", ![t].stack[1].pc = "ret"],
                    t, tasks[t].stack[1].st)
    /\ cur' = t
    /\ UNCHANGED <<wf, response, started, heap, log, sleeps, nscopes, cancelled, outcome, wlog>>

executeAsync_set(t) ==
    /\ At(t, "Async", "ret")
    /\ tasks' = [tasks EXCEPT ![t].st = "done", ![t].stack = <<>>]
    /\ cur' = 0
    /\ UNCHANGED <<wf, response, started, heap, log, sleeps, nscopes, cancelled, outcome, wlog>>

(***************************************************************************)
(* Activity options.  Durations are in seconds; the zero value of a field   *)
(* is 0 and the SDK then applies its default.                               *)
(***************************************************************************)
durationOrDefault(sec, d) == IF sec > 0 THEN sec ELSE d

\* a new policy built from r alone; int32(r.MaxAttempts) is exact on the
\* values modelled
toRetryPolicy(r) ==
    [MaximumAttempts |-> IF r.MaxAttempts > 0 THEN r.MaxAttempts ELSE 0,
     InitialInterval |-> IF r.InitialIntervalSec > 0 THEN r.InitialIntervalSec ELSE 0,
     MaximumInterval |-> IF r.MaxIntervalSec > 0 THEN r.MaxIntervalSec ELSE 0,
     BackoffCoefficient |-> IF r.BackoffCoefficient > 0 THEN r.BackoffCoefficient ELSE 2]

\* the options SimpleDSLWorkflow puts in the context, which every statement
\* of the run inherits (workflow.GetActivityOptions(ctx))
GetActivityOptions(w) ==
    [StartToCloseTimeout |-> durationOrDefault(w.TimeoutSec, 30),
     ScheduleToCloseTimeout |-> 0,
     HeartbeatTimeout |-> 0,
     RetryPolicy |-> IF Len(w.Retry) > 0 THEN <<toRetryPolicy(w.Retry[1])>> ELSE <<>>]

mergeActOpts(parent, o) ==
    [StartToCloseTimeout |-> IF o.StartToCloseSeconds > 0 THEN o.StartToCloseSeconds
                             ELSE parent.StartToCloseTimeout,
     ScheduleToCloseTimeout |-> IF o.ScheduleToCloseSeconds > 0 THEN o.ScheduleToCloseSeconds
                                ELSE parent.ScheduleToCloseTimeout,
     HeartbeatTimeout |-> IF o.HeartbeatSeconds > 0 THEN o.HeartbeatSeconds
                          ELSE parent.HeartbeatTimeout,
     RetryPolicy |-> IF Len(o.Retry) > 0 THEN <<toRetryPolicy(o.Retry[1])>>
                     ELSE parent.RetryPolicy]

(***************************************************************************)
(* ActivityInvocation.execute.                                              *)
(***************************************************************************)
ActivityInvocation_execute(t) ==
    /\ At(t, "Activity", "start")
    /\ LET a == Top(t).a
           r == evalArgs(a.Args, Bindings(t), 1, <<>>)
       IN IF ~r.ok
          THEN /\ tasks' = Return(tasks, t, Err(r.err, a.Name, t))
               /\ UNCHANGED <<log, cur>>
          ELSE /\ log' = Append(log, [name |-> a.Name, args |-> r.vals, by |-> t,
                                      own |-> a.Opts,
                                      opts |-> IF Len(a.Opts) > 0
                                               THEN mergeActOpts(GetActivityOptions(wf), a.Opts[1])
                                               ELSE GetActivityOptions(wf)])
               /\ tasks' = [SetTop(tasks, t, [Top(t) EXCEPT !.pc = "wait", !.args = r.vals])
                               EXCEPT ![t].st = "act"]
               /\ cur' = 0
    /\ UNCHANGED <<wf, response, started, heap, sleeps, nscopes, cancelled, outcome, wlog>>

\* the outcomes the substrate can give the pending activity of coroutine t
ActivityOutcomes(t) ==
    {"failed"}
    \cup (IF Activities(Top(t).a.Name, Top(t).args).ok THEN {"ok"} ELSE {})
    \cup (IF tasks[t].scopes \cap cancelled # {} THEN {"canceled"} ELSE {})

\* mutant: bindings[Result] is written also when the activity failed
ActivityFuture_Get_writesOnError(t) ==
    /\ cur = 0 /\ tasks[t].st = "act"
    /\ \E o \in ActivityOutcomes(t) :
         LET a == Top(t).a
             run == [tasks EXCEPT ![t].st = "run"]
         IN /\ tasks' = Return(run, t, IF o # "ok" THEN Err("activity " \o o, a.Name, t)
                                        ELSE NoErr)
            /\ IF a.Result # ""
               THEN /\ heap' = [heap EXCEPT ![tasks[t].bm] =
                                    Put(@, a.Result, Activities(a.Name, Top(t).args).val)]
                    /\ wlog' = wlog \cup {<<tasks[t].bm, a.Result, t>>}
               ELSE UNCHANGED <<heap, wlog>>
    /\ cur' = t
    /\ UNCHANGED <<wf, response, started, log, sleeps, nscopes, cancelled, outcome>>

\* f.Get returns: the result is written to bindings[Result], or the error is wrapped
ActivityFuture_Get(t) ==
    /\ cur = 0 /\ tasks[t].st = "act"
    /\ \E o \in ActivityOutcomes(t) :
         LET a == Top(t).a
             run == [tasks EXCEPT ![t].st = "run"]
         IN IF o # "ok"
            THEN /\ tasks' = Return(run, t, Err("activity " \o o, a.Name, t))
                 /\ UNCHANGED <<heap, wlog>>
            ELSE /\ tasks' = Return(run, t, NoErr)
                 /\ IF a.Result # ""
                    THEN /\ heap' = [heap EXCEPT ![tasks[t].bm] =
                                        Put(@, a.Result, Activities(a.Name, Top(t).args).val)]
                         /\ wlog' = wlog \cup {<<tasks[t].bm, a.Result, t>>}
                    ELSE UNCHANGED <<heap, wlog>>
    /\ cur' = t
    /\ UNCHANGED <<wf, response, started, log, sleeps, nscopes, cancelled, outcome>>

(***************************************************************************)
(* Sequence.execute.                                                        *)
(***************************************************************************)
Sequence_execute(t) ==
    /\ At(t, "Sequence", "loop")
    /\ LET f == Top(t) IN
       IF f.i > Len(f.s.Elements) THEN tasks' = Return(tasks, t, NoErr)
       ELSE IF Len(f.s.Elements[f.i]) = 0
            THEN tasks' = Return(tasks, t, Err("sequence has nil element", "", t))
       ELSE tasks' = Statement_execute(SetTop(tasks, t, [f EXCEPT !.pc = "ret"]),
                                       t, f.s.Elements[f.i])
    /\ UNCHANGED <<wf, response, started, heap, cur, log, sleeps, nscopes, cancelled, outcome, wlog>>

\* mutant: the element after the one that returned is skipped
Sequence_returned_skip(t) ==
    /\ At(t, "Sequence", "ret")
    /\ IF IsErr(tasks[t].ret)
       THEN tasks' = Return(tasks, t, tasks[t].ret)
       ELSE tasks' = SetTop(tasks, t, [Top(t) EXCEPT !.pc = "loop", !.i = @ + 2])
    /\ UNCHANGED <<wf, response, started, heap, cur, log, sleeps, nscopes, cancelled, outcome, wlog>>

\* mutant: the loop goes on to the next element after a failed one
Sequence_returned_continue(t) ==
    /\ At(t, "Sequence", "ret")
    /\ tasks' = SetTop(tasks, t, [Top(t) EXCEPT !.pc = "loop", !.i = @ + 1])
    /\ UNCHANGED <<wf, response, started, heap, cur, log, sleeps, nscopes, cancelled, outcome, wlog>>

Sequence_returned(t) ==
    /\ At(t, "Sequence", "ret")
    /\ IF IsErr(tasks[t].ret)
       THEN tasks' = Return(tasks, t, tasks[t].ret)
       ELSE tasks' = SetTop(tasks, t, [Top(t) EXCEPT !.pc = "loop", !.i = @ + 1])
    /\ UNCHANGED <<wf, response, started, heap, cur, log, sleeps, nscopes, cancelled, outcome, wlog>>

(***************************************************************************)
(* Helpers shared by Parallel.execute and Map.execute.                      *)
(***************************************************************************)
\* mutant: the map itself is handed out, not a copy
cloneMap_alias(h, m) == [heap |-> h, ref |-> m]

\* cloneMap allocates a new map holding the entries of map m
cloneMap(h, m) == [heap |-> Append(h, h[m]), ref |-> Len(h) + 1]

RECURSIVE DeepEqual(_, _)
\* reflect.DeepEqual on two values of type any: the dynamic types are the
\* same and the values are equal, floats by ==, slices and maps element by
\* element (two slices or maps that are not the same object)
DeepEqual(a, b) ==
    IF a.t # b.t THEN FALSE
    ELSE IF a.t = "float" THEN ~IsNaN(a) /\ ~IsNaN(b) /\ a.v = b.v
    ELSE IF a.t = "list"
         THEN Len(a.v) = Len(b.v) /\ \A i \in 1..Len(a.v) : DeepEqual(a.v[i], b.v[i])
    ELSE IF a.t = "map"
         THEN DOMAIN a.v = DOMAIN b.v /\ \A k \in DOMAIN a.v : DeepEqual(a.v[k], b.v[k])
    ELSE a.v = b.v

\* toFloat: int, int64 and float64 are the numbers; the conversion to float64
\* is exact on the integers of the model
toFloat(x) ==
    IF x.t \in {"int", "int64"} THEN [f |-> FloatV(x.v), isNum |-> TRUE]
    ELSE IF x.t = "float" THEN [f |-> x, isNum |-> TRUE]
    ELSE [f |-> FloatV(0), isNum |-> FALSE]

\* mutant: floats compared by == alone, so that NaN differs from NaN
deepEqualNumberAware_ieee(a, b) ==
    LET af == toFloat(a)
        bf == toFloat(b)
    IN IF af.isNum /\ bf.isNum
       THEN ~IsNaN(af.f) /\ ~IsNaN(bf.f) /\ af.f.v = bf.f.v
       ELSE DeepEqual(a, b)

\* mutant: no number-aware case, reflect.DeepEqual only
deepEqualNumberAware_strict(a, b) == DeepEqual(a, b)

deepEqualNumberAware(a, b) ==
    LET af == toFloat(a)
        bf == toFloat(b)
    IN IF af.isNum /\ bf.isNum
       THEN (IsNaN(af.f) /\ IsNaN(bf.f))
            \/ (~IsNaN(af.f) /\ ~IsNaN(bf.f) /\ af.f.v = bf.f.v)
       ELSE DeepEqual(a, b)

\* mutant: every float that is not zero is true, NaN included
isTruthy_nan(x) ==
    CASE x.t = "bool" -> x.v
      [] x.t = "str" -> x.v # ""
      [] x.t \in {"int", "int64"} -> x.v # 0
      [] x.t = "float" -> IsNaN(x) \/ x.v # 0
      [] x.t = "list" -> Len(x.v) > 0
      [] x.t = "map" -> DOMAIN x.v # {}
      [] OTHER -> x.t # "nil"

isTruthy(x) ==
    CASE x.t = "bool" -> x.v
      [] x.t = "str" -> x.v # ""
      [] x.t \in {"int", "int64"} -> x.v # 0
      [] x.t = "float" -> ~IsNaN(x) /\ x.v # 0
      [] x.t = "list" -> Len(x.v) > 0
      [] x.t = "map" -> DOMAIN x.v # {}
      [] OTHER -> x.t # "nil"

\* the atomic forms of evalCond: Truthy, Eq, Ne, or the empty condition
evalAtom(c, b) ==
    IF Len(c.Truthy) > 0 THEN
        LET v == evalValue(c.Truthy[1], b)
        IN IF ~v.ok THEN [val |-> FALSE, err |-> v.err]
           ELSE [val |-> isTruthy(v.val), err |-> ""]
    ELSE IF Len(c.Eq) > 0 THEN
        LET l == evalValue(c.Eq[1].Left, b)
            r == evalValue(c.Eq[1].Right, b)
        IN IF ~l.ok THEN [val |-> FALSE, err |-> l.err]
           ELSE IF ~r.ok THEN [val |-> FALSE, err |-> r.err]
           ELSE [val |-> deepEqualNumberAware(l.val, r.val), err |-> ""]
    ELSE IF Len(c.Ne) > 0 THEN
        LET l == evalValue(c.Ne[1].Left, b)
            r == evalValue(c.Ne[1].Right, b)
        IN IF ~l.ok THEN [val |-> FALSE, err |-> l.err]
           ELSE IF ~r.ok THEN [val |-> FALSE, err |-> r.err]
           ELSE [val |-> ~deepEqualNumberAware(l.val, r.val), err |-> ""]
    ELSE [val |-> FALSE, err |-> "empty condition"]

RECURSIVE evalCond(_, _)
RECURSIVE evalAll(_, _, _)
RECURSIVE evalAny(_, _, _, _)

\* for _, sub := range c.All: the first sub-condition that fails or is false
\* decides
evalAll(subs, b, i) ==
    IF i > Len(subs) THEN [val |-> TRUE, err |-> ""]
    ELSE LET r == evalCond(subs[i], b)
         IN IF r.err # "" \/ ~r.val THEN r ELSE evalAll(subs, b, i + 1)

\* for _, sub := range c.Any: every sub-condition is evaluated, the first
\* error is returned, anyMatch accumulates
evalAny(subs, b, i, anyMatch) ==
    IF i > Len(subs) THEN [val |-> anyMatch, err |-> ""]
    ELSE LET r == evalCond(subs[i], b)
         IN IF r.err # "" THEN [val |-> FALSE, err |-> r.err]
            ELSE evalAny(subs, b, i + 1, anyMatch \/ r.val)

\* mutant: the atomic forms are tried before Not, All and Any
evalCond_atomsFirst(c, b) ==
    IF Len(c.Truthy) > 0 \/ Len(c.Eq) > 0 \/ Len(c.Ne) > 0 THEN evalAtom(c, b)
    ELSE IF Len(c.Not) > 0 THEN
        LET r == evalCond(c.Not[1], b) IN [val |-> ~r.val, err |-> r.err]
    ELSE IF Len(c.All) > 0 THEN evalAll(c.All, b, 1)
    ELSE IF Len(c.Any) > 0 THEN evalAny(c.Any, b, 1, FALSE)
    ELSE evalAtom(c, b)

evalCond(c, b) ==
    IF Len(c.Not) > 0 THEN
        LET r == evalCond(c.Not[1], b) IN [val |-> ~r.val, err |-> r.err]
    ELSE IF Len(c.All) > 0 THEN evalAll(c.All, b, 1)
    ELSE IF Len(c.Any) > 0 THEN evalAny(c.Any, b, 1, FALSE)
    ELSE evalAtom(c, b)

\* Selector.Select can run the callback of a future that is ready and whose
\* callback has not run yet
Ready(sel) == {i \in 1..Len(sel) : ~sel[i].fired /\ tasks[sel[i].task].st = "done"}
\* coroutine t is running, or blocked in Select and resumable by the dispatcher
CanSelect(t) == \/ Running(t)
                \/ cur = 0 /\ tasks[t].st = "sel"

\* mutant: the last non-nil err of results[i..]
FirstErr_last(results, i) ==
    LET errs == {j \in i..Len(results) : IsErr(results[j].err)}
    IN IF errs = {} THEN NoErr
       ELSE results[CHOOSE j \in errs : \A l \in errs : l <= j].err

RECURSIVE FirstErr(_, _)
\* the first non-nil err of results[i..]
FirstErr(results, i) ==
    IF i > Len(results) THEN NoErr
    ELSE IF IsErr(results[i].err) THEN results[i].err
    ELSE FirstErr(results, i + 1)

(***************************************************************************)
(* Parallel.execute.                                                        *)
(***************************************************************************)
RECURSIVE Parallel_fanout(_, _, _)
\* the loop over p.Branches: clone, executeAsync, AddFuture
Parallel_fanout(s, t, i) ==
    IF i > Len(s.f.p.Branches) THEN s
    ELSE LET c == cloneMap(s.heap, s.tasks[t].bm)
             ts == Append(s.tasks, NewTask(s.f.p.Branches[i], c.ref, s.tasks[t].scopes, t,
                                      "Parallel", i - 1))
         IN Parallel_fanout(
                [heap |-> c.heap, tasks |-> ts,
                 f |-> [s.f EXCEPT !.sel = Append(@, [task |-> Len(ts), local |-> c.ref,
                                                        idx |-> i - 1, fired |-> FALSE])]],
                t, i + 1)

Parallel_execute(t) ==
    /\ At(t, "Parallel", "start")
    /\ IF Len(Top(t).p.Branches) = 0
       THEN /\ tasks' = Return(tasks, t, NoErr)
            /\ UNCHANGED heap
       ELSE LET s == Parallel_fanout(
                        [heap |-> heap, tasks |-> tasks,
                         f |-> [Top(t) EXCEPT !.pc = "wait", !.pre = Bindings(t)]], t, 1)
            IN /\ heap' = s.heap
               /\ tasks' = SetTop(s.tasks, t, s.f)
    /\ UNCHANGED <<wf, response, started, cur, log, sleeps, nscopes, cancelled, outcome, wlog>>

\* selector.Select runs the callback of one completed branch
Parallel_select(t) ==
    /\ CanSelect(t)
    /\ Top(t).k = "Parallel" /\ Top(t).pc = "wait"
    /\ Top(t).completed < Len(Top(t).p.Branches)
    /\ \E i \in Ready(Top(t).sel) :
         LET f == Top(t)
             c == f.sel[i]
             err == tasks[c.task].ret
             res == IF IsErr(err) THEN [local |-> 0, err |-> err]
                    ELSE [local |-> c.local, err |-> NoErr]
         IN tasks' = [SetTop(tasks, t, [f EXCEPT !.sel[i].fired = TRUE,
                                                 !.results = Append(@, res),
                                                 !.completed = @ + 1])
                         EXCEPT ![t].st = "run", ![c.task].obs = f.completed + 1]
    /\ cur' = t
    /\ UNCHANGED <<wf, response, started, heap, log, sleeps, nscopes, cancelled, outcome, wlog>>

\* selector.Select blocks: no registered future is ready
Parallel_block(t) ==
    /\ At(t, "Parallel", "wait")
    /\ Top(t).completed < Len(Top(t).p.Branches)
    /\ Ready(Top(t).sel) = {}
    /\ tasks' = [tasks EXCEPT ![t].st = "sel"]
    /\ cur' = 0
    /\ UNCHANGED <<wf, response, started, heap, log, sleeps, nscopes, cancelled, outcome, wlog>>

\* mutant: the wait loop also ends at the first failed branch
Parallel_joined_onError(t) ==
    /\ At(t, "Parallel", "wait")
    /\ \/ Top(t).completed >= Len(Top(t).p.Branches)
       \/ IsErr(FirstErr(Top(t).results, 1))
    /\ LET f == Top(t)
           firstErr == FirstErr(f.results, 1)
       IN IF IsErr(firstErr)
          THEN tasks' = Return(tasks, t, firstErr)
          ELSE tasks' = SetTop(tasks, t, [f EXCEPT !.pc = "merge", !.r = 1,
                                                    !.todo = DOMAIN heap[f.results[1].local]])
    /\ UNCHANGED <<wf, response, started, heap, cur, log, sleeps, nscopes, cancelled, outcome, wlog>>

\* all branches completed: the first error, or the merge begins
Parallel_joined(t) ==
    /\ At(t, "Parallel", "wait")
    /\ Top(t).completed >= Len(Top(t).p.Branches)
    /\ LET f == Top(t)
           firstErr == FirstErr(f.results, 1)
       IN IF IsErr(firstErr)
          THEN tasks' = Return(tasks, t, firstErr)
          ELSE tasks' = SetTop(tasks, t, [f EXCEPT !.pc = "merge", !.r = 1,
                                                    !.todo = DOMAIN heap[f.results[1].local]])
    /\ UNCHANGED <<wf, response, started, heap, cur, log, sleeps, nscopes, cancelled, outcome, wlog>>

\* mutant: no conflict detection, the value merged last wins
Parallel_mergeKey_lastWins(t) ==
    /\ At(t, "Parallel", "merge")
    /\ \E k \in Top(t).todo :
         LET f == Top(t)
             v == heap[f.results[f.r].local][k]
         IN /\ heap' = [heap EXCEPT ![tasks[t].bm] = Put(Bindings(t), k, v)]
            /\ wlog' = wlog \cup {<<tasks[t].bm, k, t>>}
            /\ tasks' = SetTop(tasks, t, [f EXCEPT !.todo = @ \ {k}])
    /\ UNCHANGED <<wf, response, started, cur, log, sleeps, nscopes, cancelled, outcome>>

\* one step of `for k, v := range r.local`, the keys in any order
Parallel_mergeKey(t) ==
    /\ At(t, "Parallel", "merge")
    /\ \E k \in Top(t).todo :
         LET f == Top(t)
             v == heap[f.results[f.r].local][k]
             b == Bindings(t)
         IN IF k \in DOMAIN b /\ ~DeepEqual(b[k], v)
            THEN /\ tasks' = Return(tasks, t, Err("written by multiple branches", k, t))
                 /\ UNCHANGED <<heap, wlog>>
            ELSE /\ heap' = [heap EXCEPT ![tasks[t].bm] = Put(b, k, v)]
                 /\ wlog' = wlog \cup {<<tasks[t].bm, k, t>>}
                 /\ tasks' = SetTop(tasks, t, [f EXCEPT !.todo = @ \ {k}])
    /\ UNCHANGED <<wf, response, started, cur, log, sleeps, nscopes, cancelled, outcome>>

\* the next result of `for _, r := range results`, or the end of the merge
Parallel_mergeNext(t) ==
    /\ At(t, "Parallel", "merge")
    /\ Top(t).todo = {}
    /\ LET f == Top(t) IN
       IF f.r >= Len(f.results)
       THEN tasks' = Return(tasks, t, NoErr)
       ELSE tasks' = SetTop(tasks, t,
                [f EXCEPT !.r = @ + 1,
                          !.todo = IF f.results[f.r + 1].local = 0 THEN {}
                                   ELSE DOMAIN heap[f.results[f.r + 1].local]])
    /\ UNCHANGED <<wf, response, started, heap, cur, log, sleeps, nscopes, cancelled, outcome, wlog>>

(***************************************************************************)
(* Map.execute.                                                             *)
(***************************************************************************)
\* toSlice: only a slice converts
toSlice(v) == IF v.t = "list" THEN [ok |-> TRUE, items |-> v.v] ELSE [ok |-> FALSE, items |-> <<>>]

\* mutant: the workflow's Concurrency takes precedence over the Map's
window_workflowFirst(mc, wc) == IF wc > 0 THEN wc ELSE (IF mc > 0 THEN mc ELSE 1)

\* the concurrency window of a Map with Concurrency mc in a workflow with Concurrency wc
window(mc, wc) == IF mc <= 0 THEN (IF wc > 0 THEN wc ELSE 1) ELSE mc

HasPrefix(s, prefix) == Len(s) >= Len(prefix) /\ SubSeq(s, 1, Len(prefix)) = prefix

\* the closure emit, called with (next, items[next]): s holds the heap, the
\* coroutines, the write history and the frame f of the Map of coroutine t
emit(s, t) ==
    LET idx == s.f.next
        c == cloneMap(s.heap, s.tasks[t].bm)
        ts == Append(s.tasks, NewTask(s.f.m.Body, c.ref, s.tasks[t].scopes \cup {s.f.scope},
                                      t, "Map", idx))
    IN [heap |-> [c.heap EXCEPT ![c.ref] = Put(@, s.f.itemVar, s.f.items[idx + 1])],
        tasks |-> ts,
        wlog |-> s.wlog \cup {<<c.ref, s.f.itemVar, t>>},
        f |-> [s.f EXCEPT !.inflight = @ + 1,
                          !.sel = Append(@, [task |-> Len(ts), local |-> c.ref,
                                             idx |-> idx, fired |-> FALSE])]]

RECURSIVE Map_prime(_, _)
\* for next < len(items) && inflight < window { emit(next, items[next]); next++ }
Map_prime(s, t) ==
    IF s.f.next < Len(s.f.items) /\ s.f.inflight < s.f.window
    THEN LET e == emit(s, t) IN Map_prime([e EXCEPT !.f.next = @ + 1], t)
    ELSE s

Map_execute(t) ==
    /\ At(t, "Map", "start")
    /\ LET f == Top(t)
           m == f.m
           b == Bindings(t)
       IN IF m.ItemsRef \notin DOMAIN b
          THEN /\ tasks' = Return(tasks, t, Err("map items var not found", m.ItemsRef, t))
               /\ UNCHANGED <<heap, wlog, nscopes>>
          ELSE IF ~toSlice(b[m.ItemsRef]).ok
          THEN /\ tasks' = Return(tasks, t, Err("map items var is not a slice", m.ItemsRef, t))
               /\ UNCHANGED <<heap, wlog, nscopes>>
          ELSE LET items == toSlice(b[m.ItemsRef]).items
                   f0 == [f EXCEPT !.pc = "loop",
                                   !.items = items,
                                   !.itemVar = IF m.ItemVar = "" THEN "_item" ELSE m.ItemVar,
                                   !.window = window(m.Concurrency, wf.Concurrency),
                                   !.scope = nscopes + 1,
                                   !.collected = [j \in 1..Len(items) |-> NilV]]
                   s == Map_prime([heap |-> heap, tasks |-> tasks, wlog |-> wlog, f |-> f0], t)
               IN /\ nscopes' = nscopes + 1
                  /\ heap' = s.heap
                  /\ wlog' = s.wlog
                  /\ tasks' = SetTop(s.tasks, t, s.f)
    /\ UNCHANGED <<wf, response, started, cur, log, sleeps, cancelled, outcome>>

\* one turn of the dispatch loop in which Select runs the callback of the
\* completed iteration sel[i]; ret is the error of the early return, if any
Map_dispatch(s, t, i) ==
    LET c == s.f.sel[i]
        f1 == [s.f EXCEPT !.sel[i].fired = TRUE,
                          !.allResults = Append(@, [local |-> c.local,
                                                    err |-> s.tasks[c.task].ret,
                                                    idx |-> c.idx]),
                          !.completed = @ + 1]
        s1 == [heap |-> s.heap, tasks |-> [s.tasks EXCEPT ![c.task].obs = f1.completed],
               wlog |-> s.wlog, f |-> f1, returned |-> FALSE, ret |-> NoErr]
    IN IF f1.completed < Len(f1.allResults)
       THEN LET lastResult == f1.allResults[Len(f1.allResults)]
                s2 == [s1 EXCEPT !.f.inflight = @ - 1]
            IN IF IsErr(lastResult.err) /\ f1.m.FailFast
               THEN [s2 EXCEPT !.returned = TRUE, !.ret = lastResult.err]
               ELSE IF s2.f.next < Len(s2.f.items) /\ s2.f.inflight < s2.f.window
               THEN LET e == emit(s2, t)
                    IN [s2 EXCEPT !.heap = e.heap, !.tasks = e.tasks, !.wlog = e.wlog,
                                  !.f = [e.f EXCEPT !.next = @ + 1]]
               ELSE s2
       ELSE s1

Map_select(t) ==
    /\ CanSelect(t)
    /\ Top(t).k = "Map" /\ Top(t).pc = "loop"
    /\ Top(t).completed < Len(Top(t).items)
    /\ \E i \in Ready(Top(t).sel) :
         LET s == Map_dispatch([heap |-> heap, tasks |-> tasks, wlog |-> wlog, f |-> Top(t)],
                               t, i)
             run == [s.tasks EXCEPT ![t].st = "run"]
         IN /\ heap' = s.heap
            /\ wlog' = s.wlog
            /\ IF s.returned
               THEN /\ tasks' = Return(run, t, s.ret)
                    /\ cancelled' = cancelled \cup {s.f.scope}
               ELSE /\ tasks' = SetTop(run, t, s.f)
                    /\ UNCHANGED cancelled
    /\ cur' = t
    /\ UNCHANGED <<wf, response, started, log, sleeps, nscopes, outcome>>

\* selector.Select blocks: no registered future is ready
Map_block(t) ==
    /\ At(t, "Map", "loop")
    /\ Top(t).completed < Len(Top(t).items)
    /\ Ready(Top(t).sel) = {}
    /\ tasks' = [tasks EXCEPT ![t].st = "sel"]
    /\ cur' = 0
    /\ UNCHANGED <<wf, response, started, heap, log, sleeps, nscopes, cancelled, outcome, wlog>>

\* mutant: rule 3 also takes keys that the outer bindings already hold
NewKeys_all(local, b, itemVar, collectVar) ==
    {k \in DOMAIN local : /\ k # itemVar
                          /\ k # collectVar
                          /\ ~HasPrefix(k, collectVar \o "_")}

\* the keys rule 3 of the collection can pick for a clone: the range over the
\* clone stops at the first key that qualifies
NewKeys(local, b, itemVar, collectVar) ==
    {k \in DOMAIN local : /\ k # itemVar
                          /\ k # collectVar
                          /\ ~HasPrefix(k, collectVar \o "_")
                          /\ k \notin DOMAIN b}

\* mutant: the value goes to the first free slot (completion order)
collect_append(collected, idx, v) ==
    LET free == {i \in 1..Len(collected) : collected[i].t = "nil"}
    IN IF free = {} THEN collected
       ELSE [collected EXCEPT ![CHOOSE i \in free : \A j \in free : i <= j] = v]

\* if r.idx < len(collected) { collected[r.idx] = collectedValue }
collect_at(collected, idx, v) ==
    IF idx < Len(collected) THEN [collected EXCEPT ![idx + 1] = v] ELSE collected

\* one turn of `for _, r := range allResults`
Map_result(t) ==
    /\ At(t, "Map", "loop")
    /\ Top(t).completed >= Len(Top(t).items)
    /\ Top(t).ri <= Len(Top(t).allResults)
    /\ LET f == Top(t)
           r == f.allResults[f.ri]
           local == heap[r.local]
           cv == f.m.CollectVar
           cvi == cv \o "_" \o ToString(r.idx)
           f1 == [f EXCEPT !.ri = @ + 1]
       IN IF IsErr(r.err)
          THEN tasks' = SetTop(tasks, t,
                   [f1 EXCEPT !.firstErr = IF IsErr(f.firstErr) THEN f.firstErr ELSE r.err])
          ELSE LET f2 == [f1 EXCEPT !.successResults = Append(@, r)] IN
               IF cv = "" THEN tasks' = SetTop(tasks, t, f2)
               ELSE IF cv \in DOMAIN local
               THEN tasks' = SetTop(tasks, t,
                        [f2 EXCEPT !.collected = collect_at(@, r.idx, local[cv]),
                                   !.collectVars = @ \cup {cv},
                                   !.picked = @ \cup {<<r.idx, cv>>}])
               ELSE IF cvi \in DOMAIN local
               THEN tasks' = SetTop(tasks, t,
                        [f2 EXCEPT !.collected = collect_at(@, r.idx, local[cvi]),
                                   !.collectVars = @ \cup {cvi},
                                   !.picked = @ \cup {<<r.idx, cvi>>}])
               ELSE IF NewKeys(local, Bindings(t), f.itemVar, cv) = {}
               THEN tasks' = SetTop(tasks, t, f2)
               ELSE \E k \in NewKeys(local, Bindings(t), f.itemVar, cv) :
                      tasks' = SetTop(tasks, t,
                          [f2 EXCEPT !.collected = collect_at(@, r.idx, local[k]),
                                     !.collectVars = @ \cup {k},
                                     !.picked = @ \cup {<<r.idx, k>>}])
    /\ UNCHANGED <<wf, response, started, heap, cur, log, sleeps, nscopes, cancelled, outcome, wlog>>

\* after the loop over allResults: the fail-fast return, or the merge begins
Map_results_done(t) ==
    /\ At(t, "Map", "loop")
    /\ Top(t).completed >= Len(Top(t).items)
    /\ Top(t).ri > Len(Top(t).allResults)
    /\ LET f == Top(t) IN
       IF IsErr(f.firstErr) /\ f.m.FailFast
       THEN /\ tasks' = Return(tasks, t, f.firstErr)
            /\ cancelled' = cancelled \cup {f.scope}
       ELSE /\ tasks' = SetTop(tasks, t,
                    [f EXCEPT !.pc = "merge", !.r = 1,
                              !.todo = IF Len(f.successResults) = 0 THEN {}
                                       ELSE DOMAIN heap[f.successResults[1].local]])
            /\ UNCHANGED cancelled
    /\ UNCHANGED <<wf, response, started, heap, cur, log, sleeps, nscopes, outcome, wlog>>

\* mutant: the merge skips CollectVar only
Map_skips_collectVarOnly(k, f) == f.m.CollectVar # "" /\ k = f.m.CollectVar

\* the keys the merge skips
Map_skips(k, f) ==
    \/ k = f.itemVar
    \/ f.m.CollectVar # "" /\ (k = f.m.CollectVar \/ HasPrefix(k, f.m.CollectVar \o "_"))
    \/ k \in f.collectVars

\* mutant: the merge writes every key it does not skip, without comparing
Map_mergeKey_overwrite(t) ==
    /\ At(t, "Map", "merge")
    /\ \E k \in Top(t).todo :
         LET f == Top(t)
             v == heap[f.successResults[f.r].local][k]
             b == Bindings(t)
         IN IF Map_skips(k, f)
            THEN /\ tasks' = SetTop(tasks, t, [f EXCEPT !.todo = @ \ {k}])
                 /\ UNCHANGED <<heap, wlog, cancelled>>
            ELSE /\ heap' = [heap EXCEPT ![tasks[t].bm] = Put(b, k, v)]
                 /\ wlog' = wlog \cup {<<tasks[t].bm, k, t>>}
                 /\ tasks' = SetTop(tasks, t, [f EXCEPT !.todo = @ \ {k}])
                 /\ UNCHANGED cancelled
    /\ UNCHANGED <<wf, response, started, cur, log, sleeps, nscopes, outcome>>

\* one step of `for k, v := range r.local`, the keys in any order
Map_mergeKey(t) ==
    /\ At(t, "Map", "merge")
    /\ \E k \in Top(t).todo :
         LET f == Top(t)
             v == heap[f.successResults[f.r].local][k]
             b == Bindings(t)
         IN IF Map_skips(k, f)
            THEN /\ tasks' = SetTop(tasks, t, [f EXCEPT !.todo = @ \ {k}])
                 /\ UNCHANGED <<heap, wlog, cancelled>>
            ELSE IF k \in DOMAIN b /\ ~DeepEqual(b[k], v)
            THEN /\ tasks' = Return(tasks, t, Err("written by multiple map iterations", k, t))
                 /\ cancelled' = cancelled \cup {f.scope}
                 /\ UNCHANGED <<heap, wlog>>
            ELSE /\ heap' = [heap EXCEPT ![tasks[t].bm] = Put(b, k, v)]
                 /\ wlog' = wlog \cup {<<tasks[t].bm, k, t>>}
                 /\ tasks' = SetTop(tasks, t, [f EXCEPT !.todo = @ \ {k}])
                 /\ UNCHANGED cancelled
    /\ UNCHANGED <<wf, response, started, cur, log, sleeps, nscopes, outcome>>

RECURSIVE NonNil(_, _)
\* the values of collected[i..] that are not nil, in order
NonNil(collected, i) ==
    IF i > Len(collected) THEN <<>>
    ELSE IF collected[i].t # "nil" THEN <<collected[i]>> \o NonNil(collected, i + 1)
    ELSE NonNil(collected, i + 1)

\* the next result of `for _, r := range successResults`; after the last one
\* bindings[CollectVar] is set and firstErr is returned
Map_mergeNext(t) ==
    /\ At(t, "Map", "merge")
    /\ Top(t).todo = {}
    /\ LET f == Top(t) IN
       IF f.r >= Len(f.successResults)
       THEN /\ tasks' = Return(tasks, t, f.firstErr)
            /\ cancelled' = cancelled \cup {f.scope}
            /\ IF f.m.CollectVar # ""
               THEN /\ heap' = [heap EXCEPT ![tasks[t].bm] =
                                    Put(@, f.m.CollectVar, ListV(NonNil(f.collected, 1)))]
                    /\ wlog' = wlog \cup {<<tasks[t].bm, f.m.CollectVar, t>>}
               ELSE UNCHANGED <<heap, wlog>>
       ELSE /\ tasks' = SetTop(tasks, t,
                    [f EXCEPT !.r = @ + 1,
                              !.todo = DOMAIN heap[f.successResults[f.r + 1].local]])
            /\ UNCHANGED <<heap, wlog, cancelled>>
    /\ UNCHANGED <<wf, response, started, cur, log, sleeps, nscopes, outcome>>

(***************************************************************************)
(* If.execute and While.execute.                                            *)
(***************************************************************************)
Note(ts, t, ev) == [ts EXCEPT ![t].trace = Append(@, ev)]
CondEvent(r) == IF r.err # "" THEN "E" ELSE IF r.val THEN "T" ELSE "F"

\* mutant: the Else branch is executed whatever the condition is
If_execute_else(t) ==
    /\ At(t, "If", "start")
    /\ LET i == Top(t).i
           r == evalCond(i.Cond, Bindings(t))
           ts == Note(tasks, t, CondEvent(r))
       IN IF r.err # ""
          THEN tasks' = Return(ts, t, Err("if condition eval failed", r.err, t))
          ELSE IF Len(i.Else) > 0
          THEN tasks' = Statement_execute(
                            Note(SetTop(ts, t, [Top(t) EXCEPT !.pc = "ret"]), t, "else"),
                            t, i.Else)
          ELSE tasks' = Return(ts, t, NoErr)
    /\ UNCHANGED <<wf, response, started, heap, cur, log, sleeps, nscopes, cancelled, outcome, wlog>>

If_execute(t) ==
    /\ At(t, "If", "start")
    /\ LET i == Top(t).i
           r == evalCond(i.Cond, Bindings(t))
           ts == Note(tasks, t, CondEvent(r))
       IN IF r.err # ""
          THEN tasks' = Return(ts, t, Err("if condition eval failed", r.err, t))
          ELSE IF r.val /\ Len(i.Then) > 0
          THEN tasks' = Statement_execute(
                            Note(SetTop(ts, t, [Top(t) EXCEPT !.pc = "ret"]), t, "then"),
                            t, i.Then)
          ELSE IF ~r.val /\ Len(i.Else) > 0
          THEN tasks' = Statement_execute(
                            Note(SetTop(ts, t, [Top(t) EXCEPT !.pc = "ret"]), t, "else"),
                            t, i.Else)
          ELSE tasks' = Return(ts, t, NoErr)
    /\ UNCHANGED <<wf, response, started, heap, cur, log, sleeps, nscopes, cancelled, outcome, wlog>>

\* the branch returned: If.execute returns what it returned
If_returned(t) ==
    /\ At(t, "If", "ret")
    /\ tasks' = Return(tasks, t, tasks[t].ret)
    /\ UNCHANGED <<wf, response, started, heap, cur, log, sleeps, nscopes, cancelled, outcome, wlog>>

\* mutant: the MaxIters check admits one more iteration (iter > MaxIters)
While_execute_offByOne(t) ==
    /\ At(t, "While", "loop")
    /\ Top(t).iter <= MaxLoop
    /\ LET w == Top(t).w
           r == evalCond(w.Cond, Bindings(t))
           ts == Note(tasks, t, CondEvent(r))
       IN IF r.err # ""
          THEN tasks' = Return(ts, t, Err("while cond eval failed", r.err, t))
          ELSE IF ~r.val THEN tasks' = Return(ts, t, NoErr)
          ELSE IF w.MaxIters > 0 /\ Top(t).iter > w.MaxIters
          THEN tasks' = Return(ts, t, Err("while exceeded MaxIters", ToString(w.MaxIters), t))
          ELSE tasks' = Statement_execute(
                            Note(SetTop(ts, t, [Top(t) EXCEPT !.pc = "ret"]), t, "body"),
                            t, w.Body)
    /\ UNCHANGED <<wf, response, started, heap, cur, log, sleeps, nscopes, cancelled, outcome, wlog>>

\* mutant: the condition is evaluated in the initial Variables every time
While_execute_stale(t) ==
    /\ At(t, "While", "loop")
    /\ Top(t).iter <= MaxLoop
    /\ LET w == Top(t).w
           r == evalCond(w.Cond, wf.Variables)
           ts == Note(tasks, t, CondEvent(r))
       IN IF r.err # ""
          THEN tasks' = Return(ts, t, Err("while cond eval failed", r.err, t))
          ELSE IF ~r.val THEN tasks' = Return(ts, t, NoErr)
          ELSE IF w.MaxIters > 0 /\ Top(t).iter >= w.MaxIters
          THEN tasks' = Return(ts, t, Err("while exceeded MaxIters", ToString(w.MaxIters), t))
          ELSE tasks' = Statement_execute(
                            Note(SetTop(ts, t, [Top(t) EXCEPT !.pc = "ret"]), t, "body"),
                            t, w.Body)
    /\ UNCHANGED <<wf, response, started, heap, cur, log, sleeps, nscopes, cancelled, outcome, wlog>>

\* one turn of the loop up to the call of the body
While_execute(t) ==
    /\ At(t, "While", "loop")
    /\ Top(t).iter <= MaxLoop
    /\ LET w == Top(t).w
           r == evalCond(w.Cond, Bindings(t))
           ts == Note(tasks, t, CondEvent(r))
       IN IF r.err # ""
          THEN tasks' = Return(ts, t, Err("while cond eval failed", r.err, t))
          ELSE IF ~r.val THEN tasks' = Return(ts, t, NoErr)
          ELSE IF w.MaxIters > 0 /\ Top(t).iter >= w.MaxIters
          THEN tasks' = Return(ts, t, Err("while exceeded MaxIters", ToString(w.MaxIters), t))
          ELSE tasks' = Statement_execute(
                            Note(SetTop(ts, t, [Top(t) EXCEPT !.pc = "ret"]), t, "body"),
                            t, w.Body)
    /\ UNCHANGED <<wf, response, started, heap, cur, log, sleeps, nscopes, cancelled, outcome, wlog>>

\* the body returned: its error ends the loop; otherwise the coroutine
\* sleeps when SleepSeconds > 0, and the counter advances
While_returned(t) ==
    /\ At(t, "While", "ret")
    /\ IF IsErr(tasks[t].ret)
       THEN /\ tasks' = Return(tasks, t, tasks[t].ret)
            /\ UNCHANGED <<sleeps, cur>>
       ELSE IF Top(t).w.SleepSeconds > 0
       THEN /\ tasks' = [Note(SetTop(tasks, t, [Top(t) EXCEPT !.pc = "sleep"]), t, "sleep")
                            EXCEPT ![t].st = "sleep"]
            /\ sleeps' = sleeps + 1
            /\ cur' = 0
       ELSE /\ tasks' = SetTop(tasks, t, [Top(t) EXCEPT !.pc = "loop", !.iter = @ + 1])
            /\ UNCHANGED <<sleeps, cur>>
    /\ UNCHANGED <<wf, response, started, heap, log, nscopes, cancelled, outcome, wlog>>

\* what workflow.Sleep returns: nil when the timer fired, a cancellation
\* error when the context was cancelled while the coroutine slept (a request
\* to cancel the workflow can arrive at any time)
SleepOutcomes == {"woke", "canceled"}

\* mutant: the error of the sleep is returned by the While
While_wake_checked(t) ==
    /\ cur = 0 /\ tasks[t].st = "sleep"
    /\ \E o \in SleepOutcomes :
         LET run == [Note(tasks, t, o) EXCEPT ![t].st = "run"]
         IN tasks' = IF o = "canceled" THEN Return(run, t, Err("canceled", "sleep", t))
                     ELSE SetTop(run, t, [Top(t) EXCEPT !.pc = "loop", !.iter = @ + 1])
    /\ cur' = t
    /\ UNCHANGED <<wf, response, started, heap, log, sleeps, nscopes, cancelled, outcome, wlog>>

\* workflow.Sleep returns, after the time or with a cancellation error; the
\* error is discarded (_ = workflow.Sleep(...))
While_wake(t) ==
    /\ cur = 0 /\ tasks[t].st = "sleep"
    /\ \E o \in SleepOutcomes :
         tasks' = [Note(SetTop(tasks, t, [Top(t) EXCEPT !.pc = "loop", !.iter = @ + 1]), t, o)
                      EXCEPT ![t].st = "run"]
    /\ cur' = t
    /\ UNCHANGED <<wf, response, started, heap, log, sleeps, nscopes, cancelled, outcome, wlog>>

(***************************************************************************)
(* The workflows the runs are drawn from.                                   *)
(***************************************************************************)
Vars12 == ("x" :> IntV(1)) @@ ("y" :> IntV(2))

\* activity nodes a Sequence is built from: the third reads what the first two
\* wrote, the fourth passes a string where DoA takes a number
SeqPool ==
    { ActivityStmt("DoA", <<RefVal("x")>>, "a"),
      ActivityStmt("DoB", <<RefVal("y")>>, "b"),
      ActivityStmt("DoC", <<RefVal("a"), RefVal("b")>>, "c"),
      ActivityStmt("DoA", <<RefVal("a")>>, "x") }

RECURSIVE SeqsOf(_, _)
\* the sequences of length 1..n over the set S
SeqsOf(S, n) ==
    IF n = 0 THEN {}
    ELSE LET shorter == SeqsOf(S, n - 1)
         IN {<<e>> : e \in S} \cup shorter
            \cup {Append(q, e) : q \in {z \in shorter : Len(z) = n - 1}, e \in S}

SequenceWorkflows ==
    { Workflow(Vars12, SequenceStmt(es), 0) : es \in SeqsOf(SeqPool, MaxElements) }

\* Parallel workflows: branch i of n writes its own variable; a conflicting
\* pair; a branch that reads what its sibling writes; scenario 1 of the spec
ParBranch(i) ==
    ActivityStmt(IF i % 2 = 1 THEN "DoA" ELSE "DoB",
                 <<RefVal(IF i % 2 = 1 THEN "x" ELSE "y")>>, "r" \o ToString(i))

ParallelWorkflows ==
    { Workflow(Vars12, ParallelStmt([i \in 1..n |-> ParBranch(i)]), 0) : n \in 0..MaxBranches }
    \cup
    { Workflow(Vars12, ParallelStmt([i \in 1..n |->
            ActivityStmt(IF i = 1 THEN "DoA" ELSE "DoB", <<RefVal("x")>>, "z")]), 0)
        : n \in 2..MaxBranches }
    \cup
    { Workflow(Vars12, ParallelStmt([i \in 1..n |->
            IF i = 1 THEN ActivityStmt("DoA", <<RefVal("x")>>, "a")
            ELSE SequenceStmt(<<ActivityStmt("DoB", <<RefVal("y")>>, "b"),
                                ActivityStmt("DoC", <<RefVal("a"), RefVal("b")>>, "c")>>)]), 0)
        : n \in 2..MaxBranches }
    \cup
    { Workflow(Vars12, ParallelStmt([i \in 1..n |->
            ActivityStmt("DoA", <<RefVal("x")>>, IF i = 1 THEN "x" ELSE "a")]), 0)
        : n \in 1..MaxBranches }
    \cup
    { Workflow(Vars12,
        SequenceStmt(<<ParallelStmt(<<ActivityStmt("DoA", <<RefVal("x")>>, "a"),
                                      ActivityStmt("DoB", <<RefVal("y")>>, "b")>>),
                       ActivityStmt("DoC", <<RefVal("a"), RefVal("b")>>, "c")>>), 0) }

\* Map workflows over n items
Urls(n) == ListV([i \in 1..n |-> StrV("u" \o ToString(i))])
Nums(n) == ListV([i \in 1..n |-> IntV(i)])

\* (Map.Concurrency, Workflow.Concurrency)
Windows == {<<0, 0>>, <<0, 2>>, <<-1, 2>>, <<1, 2>>, <<2, 0>>, <<MaxItems, 0>>}

\* scenario 2: the output is the one key the body introduces
FetchMaps ==
    { Workflow("urls" :> Urls(n),
               MapStmt("urls", "url", w[1], ActivityStmt("Fetch", <<RefVal("url")>>, "page"),
                       "pages", ff), w[2])
        : n \in 0..MaxItems, w \in Windows, ff \in BOOLEAN }

\* no collection: every iteration writes z, each its own value or all the same
PlainMaps ==
    { Workflow(("nums" :> Nums(n)) @@ ("x" :> IntV(1)),
               MapStmt("nums", "n", MaxItems, ActivityStmt("DoA", <<RefVal(arg)>>, "z"),
                       "", ff), 0)
        : n \in 1..MaxItems, arg \in {"n", "x"}, ff \in BOOLEAN }

\* the body writes CollectVar and a second key, per-item values
CollectMaps ==
    { Workflow("nums" :> Nums(2),
               MapStmt("nums", "", 2,
                       SequenceStmt(<<ActivityStmt("DoA", <<RefVal("_item")>>, "z"),
                                      ActivityStmt("DoB", <<RefVal("_item")>>, "out")>>),
                       "out", ff), 0)
        : ff \in BOOLEAN }

\* ItemsRef unbound, or bound to a value that is no slice
BadItemsMaps ==
    { Workflow(Vars12, MapStmt(ref, "", 0, ActivityStmt("DoA", <<RefVal("x")>>, "a"), "", FALSE), 0)
        : ref \in {"x", "urls"} }

\* the body introduces two keys and writes neither CollectVar nor CollectVar_<i>
TwoKeyMaps ==
    { Workflow("nums" :> Nums(3),
               MapStmt("nums", "", 3,
                       SequenceStmt(<<ActivityStmt("DoA", <<RefVal("_item")>>, "a"),
                                      ActivityStmt("DoB", <<RefVal("_item")>>, "b")>>),
                       "out", FALSE), 0) }

\* the three rules of the collection: the body writes z and CollectVar_0 or
\* CollectVar_1; the body writes CollectVar_1 only; the outer bindings
\* already hold CollectVar
PriorityMaps ==
    { Workflow("nums" :> Nums(2),
               MapStmt("nums", "", 2,
                       SequenceStmt(<<ActivityStmt("DoA", <<RefVal("_item")>>, "z"),
                                      ActivityStmt("DoB", <<RefVal("_item")>>, r)>>),
                       "out", FALSE), 0)
        : r \in {"out_0", "out_1"} }
    \cup
    { Workflow("nums" :> Nums(2),
               MapStmt("nums", "", 2, ActivityStmt("DoB", <<RefVal("_item")>>, "out_1"),
                       "out", FALSE), 0),
      Workflow(("nums" :> Nums(2)) @@ ("out" :> StrV("old")),
               MapStmt("nums", "", 2, ActivityStmt("DoA", <<RefVal("_item")>>, "z"),
                       "out", FALSE), 0) }

\* the outer bindings already hold a variable named like ItemVar
ShadowMaps ==
    { Workflow(("nums" :> Nums(2)) @@ ("n" :> IntV(9)),
               MapStmt("nums", "n", 2, ActivityStmt("DoA", <<RefVal("n")>>, "z"), "out", FALSE), 0) }

\* the body writes a variable the outer bindings already hold: an ordinary
\* one, one named CollectVar_0, or the one named like ItemVar; or the outer
\* bindings hold CollectVar and every iteration writes the same value
OverwriteMaps ==
    { Workflow(("nums" :> Nums(n)) @@ ("x" :> IntV(1)) @@ ("n" :> IntV(9))
                   @@ ("out_0" :> StrV("old")),
               MapStmt("nums", "n", MaxItems, ActivityStmt("DoA", <<RefVal("n")>>, r),
                       cv, FALSE), 0)
        : n \in 1..2, r \in {"x", "out_0", "n"}, cv \in {"", "out"} }
    \cup
    { Workflow(("nums" :> Nums(n)) @@ ("x" :> IntV(1)) @@ ("out" :> StrV("old")),
               MapStmt("nums", "", MaxItems, ActivityStmt("DoA", <<RefVal("x")>>, "z"),
                       "out", FALSE), 0)
        : n \in 1..2 }

MapWorkflows ==
    FetchMaps \cup PlainMaps \cup CollectMaps \cup TwoKeyMaps \cup PriorityMaps \cup ShadowMaps
        \cup OverwriteMaps \cup BadItemsMaps

\* conditions
TruthyCond(v) == [EmptyCond EXCEPT !.Truthy = <<v>>]
EqCond(l, r) == [EmptyCond EXCEPT !.Eq = <<[Left |-> l, Right |-> r]>>]
NeCond(l, r) == [EmptyCond EXCEPT !.Ne = <<[Left |-> l, Right |-> r]>>]
NotCond(c) == [EmptyCond EXCEPT !.Not = <<c>>]
AnyCond(cs) == [EmptyCond EXCEPT !.Any = cs]
AllCond(cs) == [EmptyCond EXCEPT !.All = cs]

\* values of every dynamic type a binding can hold
AnyValues ==
    { NilV, BoolV(TRUE), BoolV(FALSE), StrV(""), StrV("5"),
      IntV(0), IntV(1), IntV(5), Int64V(5), FloatV(0), FloatV(5), NaN,
      ListV(<<>>), ListV(<<IntV(5)>>),
      MapV(EmptyMap), MapV("k" :> IntV(1)) }

Approve == ActivityStmt("MockApprove", <<>>, "r")

\* if eq(ref a, ref b) / ne(ref a, ref b), over all pairs of values
CompareWorkflows ==
    { Workflow(("a" :> va) @@ ("b" :> vb), IfStmt(c, Approve, <<>>), 0)
        : va \in AnyValues, vb \in AnyValues,
          c \in {EqCond(RefVal("a"), RefVal("b")), NeCond(RefVal("a"), RefVal("b"))} }

\* if eq(ref a, literal), the literals of scenario 3 and of other types
LiteralWorkflows ==
    { Workflow("a" :> va, IfStmt(EqCond(RefVal("a"), lit), Approve, <<>>), 0)
        : va \in {IntV(5), Int64V(5), FloatV(5), StrV("5"), BoolV(TRUE), IntV(1)},
          lit \in {IntVal(5), FloatVal(5), StrVal("5"), BoolVal(TRUE), IntVal(1)} }

\* if truthy(ref a), over all values
TruthyWorkflows ==
    { Workflow("a" :> va, IfStmt(TruthyCond(RefVal("a")), Approve, <<>>), 0) : va \in AnyValues }

\* sub-conditions that are true, false, and that fail (unbound ref, empty
\* value, empty condition)
Atoms ==
    { TruthyCond(RefVal("x")), TruthyCond(RefVal("f")), TruthyCond(RefVal("missing")),
      TruthyCond(EmptyValue), EmptyCond }

\* if any[...] / all[...] / not(...) over the atoms
CombinedWorkflows ==
    { Workflow(("x" :> IntV(1)) @@ ("f" :> BoolV(FALSE)), IfStmt(c, Approve, <<>>), 0)
        : c \in {AnyCond(cs) : cs \in SeqsOf(Atoms, 2)}
                \cup {AllCond(cs) : cs \in SeqsOf(Atoms, 2)}
                \cup {NotCond(c1) : c1 \in Atoms}
                \cup {AnyCond(<<TruthyCond(RefVal("f")), TruthyCond(RefVal("x")), c3>>) : c3 \in Atoms}
                \cup {[TruthyCond(RefVal("f")) EXCEPT !.Not = <<TruthyCond(RefVal("f"))>>],
                      [AnyCond(<<TruthyCond(RefVal("f"))>>) EXCEPT !.All = <<TruthyCond(RefVal("x"))>>],
                      [EqCond(RefVal("x"), IntVal(1)) EXCEPT !.Truthy = <<RefVal("f")>>],
                      [NeCond(RefVal("x"), IntVal(1)) EXCEPT !.Eq = <<[Left |-> RefVal("x"),
                                                                  Right |-> IntVal(1)]>>],
                      [NotCond(TruthyCond(RefVal("x"))) EXCEPT !.All = <<TruthyCond(RefVal("x"))>>],
                      [AnyCond(<<TruthyCond(RefVal("f"))>>) EXCEPT !.Truthy = <<RefVal("x")>>],
                      [NotCond(EmptyCond) EXCEPT !.Truthy = <<RefVal("x")>>],
                      EmptyCond} }

\* then/else: scenario 3 (x = 5) and its variations
BranchWorkflows ==
    { Workflow(("x" :> IntV(5)) @@ ("f" :> BoolV(FALSE)),
               IfStmt(c, ActivityStmt("DoA", <<RefVal("x")>>, "result"), el), 0)
        : c \in {EqCond(RefVal("x"), IntVal(5)), EqCond(RefVal("x"), FloatVal(5)),
                 EqCond(RefVal("x"), StrVal("5")), TruthyCond(RefVal("f")),
                 TruthyCond(RefVal("missing"))},
          el \in {<<>>, ActivityStmt("DoB", <<IntVal(0)>>, "result")} }

IfWorkflows ==
    CompareWorkflows \cup LiteralWorkflows \cup TruthyWorkflows \cup CombinedWorkflows
        \cup BranchWorkflows

\* the values evalValue is applied to as the argument of an activity
ValueInputs ==
    { RefVal("x"), RefVal("missing"), StrVal("s"), StrVal(""), IntVal(7), IntVal(0),
      FloatVal(2), BoolVal(TRUE), BoolVal(FALSE), EmptyValue,
      [StrVal("s") EXCEPT !.Ref = "x"],
      [IntVal(7) EXCEPT !.Str = <<"s">>],
      [BoolVal(TRUE) EXCEPT !.Float = <<2>>] }

\* a first activity with options of its own, a second one without, in a
\* workflow with or without a default timeout and a default retry policy
OptsWorkflows ==
    { [Workflow(Vars12,
           SequenceStmt(<<<<[EmptyStatement EXCEPT !.Activity =
                               <<[ActivityInvocation("DoA", <<RefVal("x")>>, "a")
                                     EXCEPT !.Opts = <<o>>]>>]>>,
                          ActivityStmt("DoB", <<RefVal("y")>>, "b")>>), 0)
         EXCEPT !.TimeoutSec = ts, !.Retry = rp]
        : ts \in {0, 10},
          rp \in {<<>>, <<RetryPolicy(5, 1, 0, 0)>>},
          o \in { ActOpts(20, 0, 0, <<>>), ActOpts(0, 60, 5, <<>>), ActOpts(0, 0, 0, <<>>),
                  ActOpts(-1, 0, 0, <<>>), ActOpts(0, 0, 0, <<RetryPolicy(0, 2, 0, 0)>>),
                  ActOpts(0, 0, 0, <<RetryPolicy(3, 0, 7, 3)>>) } }

\* an activity with two arguments, of which the first, the second or none fails
TwoArgWorkflows ==
    { Workflow("x" :> IntV(1), ActivityStmt("DoC", args, "r"), 0)
        : args \in { <<StrVal("s"), RefVal("missing")>>, <<StrVal("s"), EmptyValue>>,
                     <<RefVal("missing"), StrVal("s")>>, <<EmptyValue, RefVal("missing")>>,
                     <<StrVal("s"), StrVal("t")>> } }

ArgWorkflows ==
    { Workflow("x" :> vx, ActivityStmt("DoA", <<v>>, "r"), 0)
        : vx \in {IntV(1), NilV, ListV(<<IntV(5)>>), NaN}, v \in ValueInputs }

\* While: scenario 4; a condition the body never changes; a condition that
\* is false after two executions of the body; a condition that fails
WhileWorkflows ==
    { Workflow("approved" :> BoolV(FALSE),
               WhileStmt(NotCond(TruthyCond(RefVal("approved"))),
                         ActivityStmt("MockApprove", <<>>, "approved"), m, sl), 0)
        : m \in 0..MaxLoop, sl \in {0, 1} }
    \cup
    { Workflow("x" :> IntV(1),
               WhileStmt(TruthyCond(RefVal("x")), ActivityStmt("DoA", <<RefVal("x")>>, "a"), m, sl), 0)
        : m \in 0..MaxLoop, sl \in {0, 1} }
    \cup
    { Workflow(("a" :> BoolV(FALSE)) @@ ("b" :> BoolV(FALSE)),
               WhileStmt(NotCond(TruthyCond(RefVal("b"))),
                         SequenceStmt(<<IfStmt(TruthyCond(RefVal("a")),
                                               ActivityStmt("MockApprove", <<>>, "b"), <<>>),
                                        ActivityStmt("MockApprove", <<>>, "a")>>), m, 0), 0)
        : m \in 0..MaxLoop }
    \cup
    { Workflow("x" :> IntV(1),
               WhileStmt(c, ActivityStmt("DoA", <<RefVal("x")>>, "a"), m, 0), 0)
        : c \in {TruthyCond(RefVal("missing")), TruthyCond(StrVal(""))}, m \in {0, 1} }

\* workflows that validate rejects
InvalidWorkflows ==
    { Workflow(Vars12, root, 0) : root \in
        { <<>>,
          <<EmptyStatement>>,
          <<[EmptyStatement EXCEPT
                !.Activity = <<ActivityInvocation("DoA", <<RefVal("x")>>, "a")>>,
                !.Sequence = <<[Elements |-> <<>>]>>]>>,
          ActivityStmt("", <<>>, "a"),
          SequenceStmt(<<ActivityStmt("DoA", <<RefVal("x")>>, "a"), ActivityStmt("", <<>>, "b")>>),
          SequenceStmt(<<ActivityStmt("DoA", <<RefVal("x")>>, "a"), <<>>>>),
          ParallelStmt(<<ActivityStmt("DoA", <<RefVal("x")>>, "a"), <<EmptyStatement>>>>),
          MapStmt("x", "", 0, <<>>, "", FALSE),
          MapStmt("", "", 0, ActivityStmt("DoA", <<RefVal("x")>>, "a"), "", FALSE),
          WhileStmt([EmptyCond EXCEPT !.Truthy = <<RefVal("x")>>], <<>>, 0, 1),
          IfStmt([EmptyCond EXCEPT !.Truthy = <<RefVal("x")>>], <<>>, <<>>),
          IfStmt([EmptyCond EXCEPT !.Truthy = <<RefVal("x")>>],
                 ActivityStmt("DoA", <<RefVal("x")>>, "a"), ActivityStmt("", <<>>, "")),
          IfStmt(EmptyCond, ActivityStmt("DoA", <<RefVal("x")>>, "a"), <<EmptyStatement>>),
          IfStmt(EmptyCond, ActivityStmt("", <<>>, "a"), <<>>),
          WhileStmt(EmptyCond, ActivityStmt("", <<>>, "a"), 0, 0),
          WhileStmt(EmptyCond, SequenceStmt(<<ActivityStmt("DoA", <<>>, "a"), <<>>>>), 0, 0),
          MapStmt("x", "", 0, SequenceStmt(<<<<>>>>), "", FALSE),
          MapStmt("x", "", 0, MapStmt("", "", 0, ActivityStmt("DoA", <<>>, "a"), "", FALSE),
                  "", FALSE),
          SequenceStmt(<<ParallelStmt(<<ActivityStmt("DoA", <<RefVal("x")>>, "a"), <<>>>>)>>),
          ParallelStmt(<<IfStmt(EmptyCond, <<>>, ActivityStmt("DoA", <<>>, "a"))>>),
          <<[EmptyStatement EXCEPT
                !.While = <<[Cond |-> EmptyCond, Body |-> ActivityStmt("DoA", <<>>, "a"),
                             MaxIters |-> 0, SleepSeconds |-> 0]>>,
                !.If = <<[Cond |-> EmptyCond, Then |-> ActivityStmt("DoA", <<>>, "a"),
                          Else |-> <<>>]>>]>> } }

\* workflows at the edge of what validate accepts: no elements, no branches,
\* an empty condition, an Else that is absent, nested statements
EdgeWorkflows ==
    { Workflow(Vars12, root, 0) : root \in
        { SequenceStmt(<<>>),
          IfStmt(EmptyCond, ActivityStmt("DoA", <<RefVal("x")>>, "a"), <<>>),
          WhileStmt(EmptyCond, ActivityStmt("DoA", <<RefVal("x")>>, "a"), 0, 0),
          ActivityStmt("DoA", <<>>, ""),
          ActivityStmt("DoA", <<RefVal("x")>>, ""),
          SequenceStmt(<<SequenceStmt(<<>>), ParallelStmt(<<>>)>>),
          IfStmt(TruthyCond(RefVal("x")), SequenceStmt(<<>>),
                 IfStmt(TruthyCond(RefVal("y")), ParallelStmt(<<>>), <<>>)) } }

\* a Parallel and a Map whose parent bindings hold a float that is NaN
NaNWorkflows ==
    { Workflow(Vars12 @@ ("q" :> NaN),
               ParallelStmt(<<ActivityStmt("DoA", <<RefVal("x")>>, "a")>>), 0),
      Workflow(("nums" :> Nums(1)) @@ ("q" :> NaN),
               MapStmt("nums", "n", 1, ActivityStmt("DoA", <<RefVal("n")>>, "z"), "", FALSE), 0) }

Workflows ==
    SequenceWorkflows \cup ParallelWorkflows \cup MapWorkflows \cup IfWorkflows
        \cup ArgWorkflows \cup WhileWorkflows \cup EdgeWorkflows \cup InvalidWorkflows
        \cup NaNWorkflows \cup TwoArgWorkflows \cup OptsWorkflows

(***************************************************************************)
(* The specification.                                                       *)
(***************************************************************************)
Init ==
    /\ wf \in Workflows
    /\ started = FALSE
    /\ heap = <<>>
    /\ tasks = <<>>
    /\ cur = 0
    /\ log = <<>>
    /\ sleeps = 0
    /\ nscopes = 0
    /\ cancelled = {}
    /\ outcome = [done |-> FALSE, err |-> NoErr, bindings |-> 0]
    /\ wlog = {}
    /\ response = [handled |-> FALSE, Success |-> FALSE, Error |-> ""]

Next ==
    \/ handleExecuteWorkflow
    \/ SimpleDSLWorkflow
    \/ SimpleDSLWorkflow_return
    \/ \E t \in TaskIds : executeAsync_run(t)
    \/ \E t \in TaskIds : executeAsync_set(t)
    \/ \E t \in TaskIds : ActivityInvocation_execute(t)
    \/ \E t \in TaskIds : ActivityFuture_Get(t)
    \/ \E t \in TaskIds : Sequence_execute(t)
    \/ \E t \in TaskIds : Sequence_returned(t)
    \/ \E t \in TaskIds : Parallel_execute(t)
    \/ \E t \in TaskIds : Parallel_select(t)
    \/ \E t \in TaskIds : Parallel_block(t)
    \/ \E t \in TaskIds : Parallel_joined(t)
    \/ \E t \in TaskIds : Parallel_mergeKey(t)
    \/ \E t \in TaskIds : Parallel_mergeNext(t)
    \/ \E t \in TaskIds : Map_execute(t)
    \/ \E t \in TaskIds : Map_select(t)
    \/ \E t \in TaskIds : Map_block(t)
    \/ \E t \in TaskIds : Map_result(t)
    \/ \E t \in TaskIds : Map_results_done(t)
    \/ \E t \in TaskIds : Map_mergeKey(t)
    \/ \E t \in TaskIds : Map_mergeNext(t)
    \/ \E t \in TaskIds : If_execute(t)
    \/ \E t \in TaskIds : If_returned(t)
    \/ \E t \in TaskIds : While_execute(t)
    \/ \E t \in TaskIds : While_returned(t)
    \/ \E t \in TaskIds : While_wake(t)

Spec == Init /\ [][Next]_vars

(***************************************************************************)
(* Properties.                                                              *)
(***************************************************************************)
HasFrame(t) == Len(tasks[t].stack) > 0
\* the coroutines registered with the selector sel
Registered(sel) == {sel[i].task : i \in 1..Len(sel)}
RootIs(kind) == Len(wf.Root) > 0 /\ validate(wf) = "" /\ Len(wf.Root[1][kind]) > 0

\* C1: Parallel.execute returns only after all its branches have completed,
\* also when a branch failed: as long as a coroutine spawned by a Parallel has
\* not completed, the Parallel that spawned it is still in its wait loop with
\* that coroutine registered.
C1_ParallelReturnsAfterAllBranches ==
    \A c \in TaskIds :
        (tasks[c].op = "Parallel" /\ tasks[c].st # "done") =>
            LET p == tasks[c].by IN
            /\ HasFrame(p)
            /\ Top(p).k = "Parallel"
            /\ Top(p).pc = "wait"
            /\ Top(p).completed < Len(Top(p).p.Branches)
            /\ c \in Registered(Top(p).sel)

\* a Parallel has seen a branch fail while another branch is still running
C1_Witness ==
    \E p \in TaskIds :
        /\ HasFrame(p)
        /\ Top(p).k = "Parallel"
        /\ \E i \in 1..Len(Top(p).results) : IsErr(Top(p).results[i].err)
        /\ \E c \in Registered(Top(p).sel) : tasks[c].st = "act"

\* C2: while a Parallel over N branches waits, exactly N branch coroutines
\* exist, each on a map of its own that is a clone of the bindings at fan-out;
\* a branch's map holds the pre-fan-out bindings plus that branch's own
\* writes, a branch writes no other map, and the parent map is unchanged.
C2_BranchesRunOnOwnClones ==
    \A p \in TaskIds :
        (HasFrame(p) /\ Top(p).k = "Parallel" /\ Top(p).pc = "wait") =>
            LET f == Top(p) IN
            /\ Len(f.sel) = Len(f.p.Branches)
            /\ Cardinality({c \in TaskIds : tasks[c].by = p /\ tasks[c].st # "done"})
                    <= Len(f.p.Branches)
            /\ heap[tasks[p].bm] = f.pre
            /\ \A i \in 1..Len(f.sel) :
                 LET c == f.sel[i] IN
                 /\ tasks[c.task].bm = c.local
                 /\ c.local # tasks[p].bm
                 /\ \A j \in 1..Len(f.sel) :
                        j # i => (f.sel[j].local # c.local /\ f.sel[j].task # c.task)
                 /\ DOMAIN f.pre \subseteq DOMAIN heap[c.local]
                 /\ \A k \in DOMAIN heap[c.local] :
                        \/ <<c.local, k, c.task>> \in wlog
                        \/ k \in DOMAIN f.pre /\ heap[c.local][k] = f.pre[k]
                 /\ \A w \in wlog : /\ w[1] = c.local => w[3] = c.task
                                    /\ w[3] = c.task => w[1] = c.local

\* a branch has written to its clone while a sibling is still running
C2_Witness ==
    \E p \in TaskIds :
        /\ HasFrame(p) /\ Top(p).k = "Parallel" /\ Top(p).pc = "wait"
        /\ \E i, j \in 1..Len(Top(p).sel) :
             /\ i # j
             /\ \E k \in DOMAIN heap[Top(p).sel[i].local] :
                    <<Top(p).sel[i].local, k, Top(p).sel[i].task>> \in wlog
             /\ heap[Top(p).sel[i].local] # Top(p).pre
             /\ tasks[Top(p).sel[j].task].st = "act"

\* the maps m1 and m2 hold equal values under every common key outside K
Agree(m1, m2, K) == \A k \in ((DOMAIN m1) \cap (DOMAIN m2)) \ K : m1[k] = m2[k]

\* the keys of the clone of iteration idx that the collector consumed or that
\* never merge: the item variable, CollectVar, CollectVar_<i>, and the key
\* the output of that iteration was taken from
Consumed(f, idx, keys) ==
    {k \in keys : \/ k = f.itemVar
                  \/ f.m.CollectVar # "" /\ k = f.m.CollectVar
                  \/ f.m.CollectVar # "" /\ HasPrefix(k, f.m.CollectVar \o "_")
                  \/ <<idx, k>> \in f.picked}

\* C3: a Parallel merge or a Map merge that is about to return success has
\* seen no two branches (iterations) that ended with different values under
\* the same key, a key the collector consumed in neither of the two
\* iterations, whatever the order of completion and of the keys.
C3_MergeSucceedsOnlyWithoutConflict ==
    \A p \in TaskIds :
        HasFrame(p) =>
          LET f == Top(p) IN
          /\ (f.k = "Parallel" /\ f.pc = "merge" /\ f.todo = {} /\ f.r >= Len(f.results)) =>
               \A i, j \in 1..Len(f.results) :
                   Agree(heap[f.results[i].local], heap[f.results[j].local], {})
          /\ (f.k = "Map" /\ f.pc = "merge" /\ f.todo = {}
                /\ f.r >= Len(f.successResults) /\ ~IsErr(f.firstErr)) =>
               \A i, j \in 1..Len(f.allResults) :
                   LET ri == f.allResults[i]
                       rj == f.allResults[j]
                   IN Agree(heap[ri.local], heap[rj.local],
                            Consumed(f, ri.idx, DOMAIN heap[ri.local])
                                \cup Consumed(f, rj.idx, DOMAIN heap[rj.local]))

\* the root statement is a Map with the given FailFast
RootMap(ff) == RootIs("Map") /\ wf.Root[1].Map[1].FailFast = ff
\* the selector entries of iterations that have not completed
Outstanding(f) == {i \in 1..Len(f.sel) : tasks[f.sel[i].task].st # "done"}

\* C4: a Map with FailFast off never blocks on its selector when no iteration
\* it launched is left to be observed, and the run of a workflow whose root
\* is such a Map ends: in every state the run has returned or a step is
\* possible.
C4_MapLaunchesAllAndReturns ==
    /\ \A t \in TaskIds :
         (HasFrame(t) /\ Top(t).k = "Map" /\ ~Top(t).m.FailFast /\ tasks[t].st = "sel") =>
            \E i \in 1..Len(Top(t).sel) : ~Top(t).sel[i].fired
    /\ (started /\ RootMap(FALSE)) => (outcome.done \/ ENABLED Next)

\* C5: after a Map with CollectVar has returned, bindings[CollectVar] lists
\* values of successful iterations in strictly increasing iteration index:
\* there are indices i1 < i2 < ... such that the j-th value is a value of the
\* final clone of iteration ij.
C5_CollectedInIndexOrder ==
    (RootIs("Map") /\ outcome.done /\ wf.Root[1].Map[1].CollectVar # ""
        /\ <<1, wf.Root[1].Map[1].CollectVar, 1>> \in wlog) =>
       LET list == heap[1][wf.Root[1].Map[1].CollectVar].v
           iters == {c \in TaskIds : tasks[c].op = "Map" /\ tasks[c].by = 1
                                     /\ ~IsErr(tasks[c].ret)}
           Values(c) == {heap[tasks[c].bm][k] : k \in DOMAIN heap[tasks[c].bm]}
       IN \E g \in [1..Len(list) -> iters] :
             /\ \A j \in 1..Len(list) : list[j] \in Values(g[j])
             /\ \A j, l \in 1..Len(list) : j < l => tasks[g[j]].idx < tasks[g[l]].idx

\* a Map has returned a collection of two or more values whose iterations
\* completed in an order other than that of their indices
C5_Witness ==
    /\ RootIs("Map") /\ outcome.done
    /\ <<1, wf.Root[1].Map[1].CollectVar, 1>> \in wlog
    /\ Len(heap[1][wf.Root[1].Map[1].CollectVar].v) >= 2
    /\ \E c, d \in TaskIds :
         /\ tasks[c].op = "Map" /\ tasks[d].op = "Map"
         /\ ~IsErr(tasks[c].ret) /\ ~IsErr(tasks[d].ret)
         /\ tasks[c].idx < tasks[d].idx
         /\ tasks[c].obs > tasks[d].obs

\* C6: in a Map with FailFast, once the failure of an iteration has been
\* observed while other iterations are outstanding, the derived cancel token
\* has been fired; and as long as an iteration has not completed, the Map
\* that launched it has not returned.
C6_FailFastCancelsAndWaits ==
    /\ \A t \in TaskIds :
         (HasFrame(t) /\ Top(t).k = "Map" /\ Top(t).m.FailFast /\ Top(t).pc = "loop"
            /\ (\E i \in 1..Len(Top(t).allResults) : IsErr(Top(t).allResults[i].err))
            /\ Outstanding(Top(t)) # {})
         => Top(t).scope \in cancelled
    /\ \A c \in TaskIds :
         (tasks[c].op = "Map" /\ tasks[c].st # "done") =>
            /\ HasFrame(tasks[c].by)
            /\ Top(tasks[c].by).k = "Map"
            /\ Top(tasks[c].by).pc = "loop"

\* the iterations of the root Map whose body failed
Failed == {c \in TaskIds : tasks[c].op = "Map" /\ tasks[c].by = 1
                           /\ tasks[c].st = "done" /\ IsErr(tasks[c].ret)}

\* C7: the run of a workflow whose root is a Map with FailFast in which the
\* body of an iteration failed returns (it has returned or a step is
\* possible), and what it returns is the error of the failure that came
\* first, not a cancellation error.
C7_FailFastReturnsFirstFailure ==
    (started /\ RootMap(TRUE) /\ Failed # {}) =>
        /\ outcome.done \/ ENABLED Next
        /\ outcome.done =>
             /\ outcome.err.e # "activity canceled"
             /\ \E c \in Failed :
                  /\ outcome.err = tasks[c].ret
                  /\ \A d \in Failed : tasks[c].obs <= tasks[d].obs

\* the window the claim states for Map m of the workflow
W(m) == IF m.Concurrency > 0 THEN m.Concurrency
        ELSE IF wf.Concurrency > 0 THEN wf.Concurrency ELSE 1

\* C8: at every moment of a Map the number of iterations launched and not
\* yet completed is at most the window: Map.Concurrency if positive, else
\* Workflow.Concurrency if positive, else 1.
C8_InflightWithinWindow ==
    \A t \in TaskIds :
        (HasFrame(t) /\ Top(t).k = "Map") =>
            /\ Cardinality(Outstanding(Top(t))) <= W(Top(t).m)
            /\ Cardinality({c \in TaskIds : tasks[c].by = t /\ tasks[c].op = "Map"
                                            /\ tasks[c].st # "done"}) <= W(Top(t).m)

\* a Map without a Concurrency of its own, in a workflow with Concurrency 2,
\* has two iterations outstanding and more items than that
C8_Witness ==
    \E t \in TaskIds :
        /\ HasFrame(t) /\ Top(t).k = "Map"
        /\ Top(t).m.Concurrency <= 0 /\ wf.Concurrency = 2
        /\ Len(Top(t).items) > 2
        /\ Cardinality(Outstanding(Top(t))) = 2

\* the elements of the root Sequence, all of them Activity nodes
Elements == [i \in 1..Len(wf.Root[1].Sequence[1].Elements) |->
                wf.Root[1].Sequence[1].Elements[i][1]]
RootIsActivitySequence ==
    /\ RootIs("Sequence")
    /\ \A i \in 1..Len(Elements) : Len(Elements[i].Activity) > 0

RECURSIVE After(_)
\* the bindings that the first i elements of the root Sequence leave when
\* each of them succeeds
After(i) ==
    IF i = 0 THEN wf.Variables
    ELSE LET a == Elements[i].Activity[1]
             b == After(i - 1)
             r == evalArgs(a.Args, b, 1, <<>>)
         IN IF r.ok /\ Activities(a.Name, r.vals).ok /\ a.Result # ""
            THEN Put(b, a.Result, Activities(a.Name, r.vals).val)
            ELSE b

\* C9: the activity invocations made by a Sequence of Activity nodes are, in
\* order, those of the declared elements, the i-th with the arguments
\* evaluated in the bindings the elements before it left; element i+1 is
\* invoked only after element i has completed, and a Sequence that succeeds
\* has invoked all elements and leaves the bindings of the last one.
C9_SequenceInDeclaredOrder ==
    (started /\ RootIsActivitySequence) =>
        /\ Len(log) <= Len(Elements)
        /\ \A j \in 1..Len(log) :
             /\ log[j].name = Elements[j].Activity[1].Name
             /\ log[j].args = evalArgs(Elements[j].Activity[1].Args, After(j - 1), 1, <<>>).vals
             /\ log[j].by = 1
        /\ Len(log) > 0 => heap[1] \in {After(Len(log) - 1), After(Len(log))}
        /\ Len(log) = 0 => heap[1] = wf.Variables
        /\ (outcome.done /\ ~IsErr(outcome.err)) =>
             /\ Len(log) = Len(Elements)
             /\ heap[1] = After(Len(Elements))

\* a Sequence of three activities, the third reading what the first two
\* wrote, has succeeded
C9_Witness ==
    /\ started /\ RootIsActivitySequence
    /\ Len(Elements) = 3
    /\ outcome.done /\ ~IsErr(outcome.err)
    /\ Len(log) = 3
    /\ log[3].name = "DoC"
    /\ heap[1] # wf.Variables

\* C10: SimpleDSLWorkflow validates before it executes the root: the run of a
\* workflow that validate rejects has returned the validation error, and no
\* activity has been invoked, no coroutine spawned and no sleep requested.
C10_ValidatesBeforeExecuting ==
    (started /\ validate(wf) # "") =>
        /\ outcome.done
        /\ outcome.err = Err(validate(wf), "", 0)
        /\ outcome.bindings = 0
        /\ log = <<>>
        /\ Len(tasks) = 0
        /\ sleeps = 0

\* a workflow with a Sequence whose second element is malformed was rejected
C10_Witness ==
    /\ started /\ outcome.done
    /\ validate(wf) # ""
    /\ Len(wf.Root) > 0 /\ Len(wf.Root[1].Sequence) > 0
    /\ Len(wf.Root[1].Sequence[1].Elements) = 2

RECURSIVE Malformed(_)
\* the statement p points to, or a statement reachable from it, is nil, has
\* a number of set variants different from 1, is an Activity with empty Name,
\* a Map without Body or with empty ItemsRef, a While without Body, or an If
\* without Then
Malformed(p) ==
    \/ Len(p) = 0
    \/ LET s == p[1] IN
       \/ Cardinality({v \in {"Activity", "Sequence", "Parallel", "Map", "While", "If"} :
                          Len(s[v]) > 0}) # 1
       \/ Len(s.Activity) > 0 /\ s.Activity[1].Name = ""
       \/ Len(s.Map) > 0 /\ (Len(s.Map[1].Body) = 0 \/ s.Map[1].ItemsRef = "")
       \/ Len(s.While) > 0 /\ Len(s.While[1].Body) = 0
       \/ Len(s.If) > 0 /\ Len(s.If[1].Then) = 0
       \/ Len(s.Sequence) > 0
            /\ \E i \in 1..Len(s.Sequence[1].Elements) : Malformed(s.Sequence[1].Elements[i])
       \/ Len(s.Parallel) > 0
            /\ \E i \in 1..Len(s.Parallel[1].Branches) : Malformed(s.Parallel[1].Branches[i])
       \/ Len(s.Map) > 0 /\ Malformed(s.Map[1].Body)
       \/ Len(s.While) > 0 /\ Malformed(s.While[1].Body)
       \/ Len(s.If) > 0 /\ Malformed(s.If[1].Then)
       \/ Len(s.If) > 0 /\ Len(s.If[1].Else) > 0 /\ Malformed(s.If[1].Else)

\* SimpleDSLWorkflow returned at the validation: nothing was executed
Rejected == started /\ Len(tasks) = 0

\* C11: the step in which SimpleDSLWorkflow validates the workflow rejects it
\* if and only if Root is absent or a statement reachable from Root is
\* malformed, and it leaves the workflow as it was.
C11_ValidateRejectsExactlyMalformed ==
    [][(~started /\ started') =>
          /\ wf' = wf
          /\ Rejected' <=> (Len(wf.Root) = 0 \/ Malformed(wf.Root))]_vars

\* a workflow whose If has a malformed Else has been rejected
C11_Witness ==
    /\ Rejected
    /\ Len(wf.Root) > 0 /\ Len(wf.Root[1].If) > 0
    /\ ~Malformed(wf.Root[1].If[1].Then)
    /\ Malformed(wf.Root[1].If[1].Else)

\* C12: when the merge of a Parallel has failed with a write conflict, the
\* parent bindings are what they were before the fan-out: no key of a branch
\* merged before the conflict was reached is left in them.
C12_ConflictLeavesNoPartialMerge ==
    (RootIs("Parallel") /\ outcome.done /\ outcome.err.e = "written by multiple branches")
        => heap[1] = wf.Variables

\* C13: when a Map with FailFast has returned an error, the parent bindings
\* are what they were before the Map: nothing was merged and CollectVar was
\* not produced.
C13_FailFastErrorLeavesBindings ==
    (RootMap(TRUE) /\ outcome.done /\ IsErr(outcome.err))
        => /\ heap[1] = wf.Variables
           /\ wf.Root[1].Map[1].CollectVar # ""
                => wf.Root[1].Map[1].CollectVar \notin DOMAIN heap[1]

\* how often the event ev occurs in the history tr
Count(tr, ev) == Cardinality({i \in 1..Len(tr) : tr[i] = ev})
\* the root While has a positive MaxIters
RootWhileBounded == RootIs("While") /\ wf.Root[1].While[1].MaxIters > 0
\* the While itself decided how the run ended: no body and no condition failed
LoopDecided == outcome.done /\ outcome.err.e \in {"nil", "while exceeded MaxIters"}

\* C14: a While with MaxIters = m > 0 executes its body at most m times; when
\* the loop itself ends the run, it ends with the max-iterations error
\* exactly when the condition is true in the bindings the last body
\* execution left, and then the body was executed m times; otherwise it
\* succeeds.
C14_WhileBoundedByMaxIters ==
    (started /\ RootWhileBounded) =>
        LET w == wf.Root[1].While[1]
            n == IF Len(tasks) > 0 THEN Count(tasks[1].trace, "body") ELSE 0
            c == evalCond(w.Cond, heap[1])
        IN /\ n <= w.MaxIters
           /\ LoopDecided =>
                /\ c.err = ""
                /\ (outcome.err.e = "while exceeded MaxIters") <=> c.val
                /\ c.val => n = w.MaxIters
                /\ outcome.err.e = "while exceeded MaxIters"
                     => outcome.err.name = ToString(w.MaxIters)

\* a While with MaxIters 2 has executed its body twice and failed with the
\* max-iterations error
C14_Witness ==
    /\ started /\ RootWhileBounded
    /\ wf.Root[1].While[1].MaxIters = 2
    /\ outcome.done /\ outcome.err.e = "while exceeded MaxIters"
    /\ Count(tasks[1].trace, "body") = 2

\* the root is an If whose Then and Else, when present, are Activity nodes
RootIfOfActivities ==
    /\ RootIs("If")
    /\ Len(wf.Root[1].If[1].Then[1].Activity) > 0
    /\ Len(wf.Root[1].If[1].Else) > 0 => Len(wf.Root[1].If[1].Else[1].Activity) > 0

\* C15: an If evaluates its condition once, against the bindings at entry,
\* and executes exactly one statement: Then when the condition is true, Else
\* when it is false and Else is present; when it is false and Else is absent
\* nothing is executed, the bindings are unchanged and the If succeeds; when
\* the evaluation fails no branch is executed and the If fails.
C15_IfExecutesOneBranch ==
    (started /\ RootIfOfActivities) =>
        LET i == wf.Root[1].If[1]
            c == evalCond(i.Cond, wf.Variables)
            tr == tasks[1].trace
            branch == IF c.err # "" THEN <<>>
                      ELSE IF c.val THEN i.Then
                      ELSE i.Else
            expected == IF c.err # "" THEN <<"E">>
                        ELSE IF c.val THEN <<"T", "then">>
                        ELSE IF Len(i.Else) > 0 THEN <<"F", "else">>
                        ELSE <<"F">>
        IN /\ tr \in {<<>>, expected}
           /\ Len(log) <= Len(branch)
           /\ Len(log) = 1 =>
                /\ log[1].name = branch[1].Activity[1].Name
                /\ log[1].args = evalArgs(branch[1].Activity[1].Args, wf.Variables, 1, <<>>).vals
           /\ Len(branch) = 0 => heap[1] = wf.Variables
           /\ (outcome.done /\ c.err # "") =>
                outcome.err = Err("if condition eval failed", c.err, 1)
           /\ (outcome.done /\ c.err = "" /\ Len(branch) = 0) => ~IsErr(outcome.err)
           /\ (outcome.done /\ ~IsErr(outcome.err)) => tr = expected /\ Len(log) = Len(branch)

\* scenario 3: x = 5, eq(ref x, int 5), Then has run and Else has not
C15_Witness ==
    /\ started /\ RootIfOfActivities
    /\ Len(wf.Root[1].If[1].Else) > 0
    /\ outcome.done /\ ~IsErr(outcome.err)
    /\ tasks[1].trace = <<"T", "then">>
    /\ "result" \in DOMAIN heap[1] /\ heap[1]["result"] = StrV("A:5")

\* the condition of the root If is an Any (the forms tried before it are not set)
RootIfAny ==
    /\ RootIs("If")
    /\ Len(wf.Root[1].If[1].Cond.Not) = 0
    /\ Len(wf.Root[1].If[1].Cond.All) = 0
    /\ Len(wf.Root[1].If[1].Cond.Any) > 0

\* C16: evalCond of Any[c1..cn] short-circuits: when some ci is true and no
\* cj before it failed, the If that evaluated the Any has seen true and no
\* error, whatever the sub-conditions after ci are.
C16_AnyShortCircuits ==
    (started /\ RootIfAny /\ tasks[1].trace # <<>>) =>
        LET cs == wf.Root[1].If[1].Cond.Any
            r(j) == evalCond(cs[j], wf.Variables)
        IN (\E i \in 1..Len(cs) :
                /\ r(i).err = "" /\ r(i).val
                /\ \A j \in 1..(i - 1) : r(j).err = "")
           => tasks[1].trace[1] = "T"

\* the root is if eq(ref a, ref b) or if ne(ref a, ref b), a and b bound
RootIfCompare ==
    /\ RootIs("If")
    /\ {"a", "b"} \subseteq DOMAIN wf.Variables
    /\ wf.Root[1].If[1].Cond \in
          {EqCond(RefVal("a"), RefVal("b")), NeCond(RefVal("a"), RefVal("b"))}
\* what an If with condition c sees in the initial bindings
Sees(c) == CondEvent(evalCond(c, wf.Variables))
Negated(ev) == IF ev = "T" THEN "F" ELSE IF ev = "F" THEN "T" ELSE ev

RootIfLiteral ==
    /\ RootIs("If")
    /\ "a" \in DOMAIN wf.Variables
    /\ LET c == wf.Root[1].If[1].Cond
       IN /\ Len(c.Eq) > 0
          /\ c.Eq[1].Left = RefVal("a")
          /\ c.Eq[1].Right.Ref = ""
\* the value a literal stands for: the first of Str, Int, Float, Bool that is set
Literal(v) ==
    IF Len(v.Str) > 0 THEN StrV(v.Str[1])
    ELSE IF Len(v.Int) > 0 THEN Int64V(v.Int[1])
    ELSE IF Len(v.Float) > 0 THEN FloatV(v.Float[1])
    ELSE BoolV(v.Bool[1])
Number(x) == x.t \in {"int", "int64", "float"}
\* equal as numbers when both are numbers, the same value of the same type otherwise
SameValue(a, b) ==
    IF Number(a) /\ Number(b)
    THEN IF IsNaN(a) \/ IsNaN(b) THEN IsNaN(a) /\ IsNaN(b) ELSE a.v = b.v
    ELSE a.t = b.t /\ a = b

\* C18: what an If sees for eq(a, b) is: equal numeric value when a and b are
\* both numbers (int, int64 or float64, so that the integer 5 bound to a
\* satisfies eq(ref a, int 5) and eq(ref a, float 5.0)), and the same value of
\* the same type when one of them is not a number (so that "5" differs from 5
\* and true from 1); ne(a, b) sees the opposite.
C18_NumbersByValueOthersStructural ==
    /\ (started /\ RootIfCompare /\ tasks[1].trace # <<>>) =>
          LET same == SameValue(wf.Variables["a"], wf.Variables["b"])
              isEq == Len(wf.Root[1].If[1].Cond.Eq) > 0
          IN tasks[1].trace[1] = (IF same = isEq THEN "T" ELSE "F")
    /\ (started /\ RootIfLiteral /\ tasks[1].trace # <<>>) =>
          LET a == wf.Variables["a"]
              lit == wf.Root[1].If[1].Cond.Eq[1].Right
              seen == tasks[1].trace[1]
          IN /\ seen = (IF SameValue(a, Literal(lit)) THEN "T" ELSE "F")
             /\ (a = IntV(5) /\ lit \in {IntVal(5), FloatVal(5)}) => seen = "T"
             /\ (a = StrV("5") /\ lit = IntVal(5)) => seen = "F"
             /\ (a = BoolV(TRUE) /\ lit = IntVal(1)) => seen = "F"

\* eq(ref a, float 5.0) with a the integer 5 has been seen true
C18_Witness ==
    /\ started /\ RootIfLiteral
    /\ wf.Variables["a"] = IntV(5)
    /\ wf.Root[1].If[1].Cond.Eq[1].Right = FloatVal(5)
    /\ tasks[1].trace # <<>> /\ tasks[1].trace[1] = "T"

\* the root is if truthy(ref a), a bound
RootIfTruthy ==
    /\ RootIs("If")
    /\ "a" \in DOMAIN wf.Variables
    /\ wf.Root[1].If[1].Cond = TruthyCond(RefVal("a"))

\* C19: what an If sees for truthy(a) is never an error, and it is true
\* exactly when a is the bool true, a string that is not empty, an integer
\* that is not zero, a float that is neither zero nor NaN, or a list or a map
\* that is not empty; it is false for nil.
C19_IsTruthyTotal ==
    (started /\ RootIfTruthy /\ tasks[1].trace # <<>>) =>
        LET a == wf.Variables["a"]
            seen == tasks[1].trace[1]
        IN /\ seen \in {"T", "F"}
           /\ a.t = "bool" => (seen = "T" <=> a.v)
           /\ a.t = "str" => (seen = "T" <=> a.v # "")
           /\ a.t \in {"int", "int64"} => (seen = "T" <=> a.v # 0)
           /\ a.t = "float" => (seen = "T" <=> (~IsNaN(a) /\ a.v # 0))
           /\ a.t = "list" => (seen = "T" <=> Len(a.v) > 0)
           /\ a.t = "map" => (seen = "T" <=> DOMAIN a.v # {})
           /\ a = NilV => seen = "F"

\* truthy(ref a) with a NaN has been seen false
C19_Witness ==
    /\ started /\ RootIfTruthy
    /\ wf.Variables["a"] = NaN
    /\ tasks[1].trace # <<>> /\ tasks[1].trace[1] = "F"

\* the root is an activity with one argument, and the argument has been evaluated
RootArgEvaluated ==
    /\ started /\ RootIs("Activity")
    /\ Len(wf.Root[1].Activity[1].Args) = 1
    /\ ~At(1, "Activity", "start")
NoFieldSet(v) == Len(v.Str) = 0 /\ Len(v.Int) = 0 /\ Len(v.Float) = 0 /\ Len(v.Bool) = 0

\* C20: the argument v of an activity evaluated in bindings b is b[k] when v
\* has Ref = k and k is bound, the literal of the set field when v has no Ref,
\* and the evaluation fails (the activity is not invoked and the error is
\* returned) when k is not bound or when v has no Ref and no field set; the
\* evaluation leaves the bindings as they were.
C20_EvalValue ==
    RootArgEvaluated =>
        LET v == wf.Root[1].Activity[1].Args[1]
            b == wf.Variables
            failsWith(e) == log = <<>> /\ tasks[1].ret.e = e
            yields(x) == Len(log) = 1 /\ log[1].args = <<x>>
        IN /\ (v.Ref # "" /\ v.Ref \in DOMAIN b) => yields(b[v.Ref])
           /\ (v.Ref # "" /\ v.Ref \notin DOMAIN b) => failsWith("ref not found")
           /\ (v.Ref = "" /\ ~NoFieldSet(v)) => yields(Literal(v))
           /\ (v.Ref = "" /\ NoFieldSet(v)) => failsWith("empty value")
           /\ (log = <<>> \/ tasks[1].st = "act") => heap[1] = b
           /\ \A k \in DOMAIN b : k # wf.Root[1].Activity[1].Result => heap[1][k] = b[k]

\* the argument ref x of the root activity has been evaluated to the list bound to x
C20_Witness ==
    /\ RootArgEvaluated
    /\ wf.Root[1].Activity[1].Args[1] = RefVal("x")
    /\ wf.Variables["x"] = ListV(<<IntV(5)>>)
    /\ Len(log) = 1 /\ log[1].args = <<ListV(<<IntV(5)>>)>>
    /\ heap[1] = wf.Variables

\* scenario 1 of the specification
Scenario1 ==
    Workflow(Vars12,
        SequenceStmt(<<ParallelStmt(<<ActivityStmt("DoA", <<RefVal("x")>>, "a"),
                                      ActivityStmt("DoB", <<RefVal("y")>>, "b")>>),
                       ActivityStmt("DoC", <<RefVal("a"), RefVal("b")>>, "c")>>), 0)
\* the keys written in the top-level bindings, by the root coroutine's
\* activities and by the merges
RootWrites == {k \in DOMAIN heap[1] : \E t \in TaskIds : <<1, k, t>> \in wlog}

\* C21: a run in which a statement failed returns (it has returned or a step
\* is possible), and a run that has returned has returned either an error
\* and no bindings or the top-level bindings and no error.  It is an error
\* when validation failed or a statement of some coroutine failed, and then
\* it is the validation error or the error of the root statement.  On
\* success the bindings are the top-level map: the initial Variables,
\* unchanged where nothing was written, plus the keys written at root scope
\* or merged; for scenario 1 they hold a, b and c.
C21_ReturnsBindingsOrError ==
    /\ (started /\ \E c \in TaskIds : IsErr(tasks[c].ret)) => (outcome.done \/ ENABLED Next)
    /\ outcome.done =>
        /\ IsErr(outcome.err) <=> outcome.bindings = 0
        /\ validate(wf) # "" => outcome.err = Err(validate(wf), "", 0)
        /\ (\E c \in TaskIds : IsErr(tasks[c].ret)) => IsErr(outcome.err)
        /\ (IsErr(outcome.err) /\ validate(wf) = "") => outcome.err = tasks[1].ret
        /\ ~IsErr(outcome.err) =>
             /\ outcome.bindings = 1
             /\ DOMAIN heap[1] = DOMAIN wf.Variables \cup RootWrites
             /\ \A k \in DOMAIN wf.Variables \ RootWrites : heap[1][k] = wf.Variables[k]
             /\ wf = Scenario1 =>
                  /\ {"a", "b", "c"} \subseteq DOMAIN heap[1]
                  /\ heap[1]["a"] = StrV("A:1")
                  /\ heap[1]["b"] = StrV("B:2")
                  /\ heap[1]["c"] = StrV("C(A:1+B:2)")

\* the branches of the root Parallel, and their clones once all have succeeded
Branches == {c \in TaskIds : tasks[c].op = "Parallel" /\ tasks[c].by = 1}
Clones == {heap[tasks[c].bm] : c \in Branches}
\* the clones hold equal values under every key they share with one another
\* and with the bindings b
Consistent(b, clones) ==
    \A m \in clones : \A k \in DOMAIN m :
        /\ k \in DOMAIN b => DeepEqual(b[k], m[k])
        /\ \A n \in clones : k \in DOMAIN n => DeepEqual(m[k], n[k])
\* the bindings b with the keys of all clones added
Merged(b, clones) ==
    [k \in DOMAIN b \cup UNION {DOMAIN m : m \in clones} |->
        IF \E m \in clones : k \in DOMAIN m
        THEN (CHOOSE m \in clones : k \in DOMAIN m)[k]
        ELSE b[k]]
RootParallelMerged ==
    /\ RootIs("Parallel") /\ outcome.done
    /\ Branches # {}
    /\ \A c \in Branches : ~IsErr(tasks[c].ret)

\* C22: what a Parallel whose branches all succeeded returns is a function of
\* the set of the branches' final clones, whatever the order in which the
\* branches completed and the keys were merged: success with the parent
\* bindings extended by the keys of the clones when the clones are
\* consistent, the write-conflict error when they are not.
C22_ParallelOutcomeDeterministic ==
    RootParallelMerged =>
        IF Consistent(wf.Variables, Clones)
        THEN /\ ~IsErr(outcome.err)
             /\ heap[1] = Merged(wf.Variables, Clones)
        ELSE outcome.err.e = "written by multiple branches"

\* a root Parallel has merged the clones of two branches that completed in
\* the order opposite to that of their indices
C22_Witness ==
    /\ RootParallelMerged /\ ~IsErr(outcome.err)
    /\ \E c, d \in Branches : tasks[c].idx < tasks[d].idx /\ tasks[c].obs > tasks[d].obs
    /\ \E c \in Branches : heap[tasks[c].bm] # wf.Variables

\* the iterations of the root Map and the clones of those that succeeded
Iterations == {c \in TaskIds : tasks[c].op = "Map" /\ tasks[c].by = 1}
IterationClones == {heap[tasks[c].bm] : c \in {d \in Iterations : ~IsErr(tasks[d].ret)}}
\* some clone holds, under a key, a value that is not number-aware equal to
\* the value of the bindings b or of another clone under that key
NumberAwareConflict(b, clones) ==
    \E m \in clones : \E k \in DOMAIN m :
        \/ k \in DOMAIN b /\ ~deepEqualNumberAware(b[k], m[k])
        \/ \E n \in clones : k \in DOMAIN n /\ ~deepEqualNumberAware(m[k], n[k])

\* C23: the merge of a Parallel and the merge of a Map report a write
\* conflict only for values that are not equal by number-aware equality: a
\* run of a root Parallel or Map that returned the conflict error had a
\* clone whose value under some key is not number-aware equal to the value of
\* the parent bindings or of another clone.
C23_MergeComparesNumberAware ==
    /\ (RootIs("Parallel") /\ outcome.done
          /\ outcome.err.e = "written by multiple branches")
       => NumberAwareConflict(wf.Variables, Clones)
    /\ (RootIs("Map") /\ outcome.done
          /\ outcome.err.e = "written by multiple map iterations")
       => NumberAwareConflict(wf.Variables, IterationClones)

Min(a, b) == IF a < b THEN a ELSE b

\* C24: in the dispatch loop of a Map, inflight is the number of iterations
\* launched whose completion has not been observed, and every observed
\* completion has launched the next item while items were left: with c
\* completions observed, min(N, min(N, window) + c) iterations have been
\* launched, for the items 0..next-1.
C24_InflightCountsOutstanding ==
    \A t \in TaskIds :
        (HasFrame(t) /\ Top(t).k = "Map" /\ Top(t).pc = "loop") =>
            LET f == Top(t)
                N == Len(f.items)
            IN /\ f.inflight = Cardinality({i \in 1..Len(f.sel) : ~f.sel[i].fired})
               /\ f.next = Len(f.sel)
               /\ \A i \in 1..Len(f.sel) : f.sel[i].idx = i - 1
               /\ Len(f.sel) = Min(N, Min(N, f.window) + f.completed)

\* the root Map, its item variable and its items
RootMapNode == wf.Root[1].Map[1]
RootItemVar == IF RootMapNode.ItemVar = "" THEN "_item" ELSE RootMapNode.ItemVar
RootItems == wf.Variables[RootMapNode.ItemsRef].v
Succeeded == {c \in Iterations : tasks[c].st = "done" /\ ~IsErr(tasks[c].ret)}
\* the clone of iteration c holds a value the collector takes as its output
HasOutput(c) ==
    LET m == heap[tasks[c].bm]
        cv == RootMapNode.CollectVar
    IN \/ cv \in DOMAIN m
       \/ (cv \o "_" \o ToString(tasks[c].idx)) \in DOMAIN m
       \/ NewKeys(m, wf.Variables, RootItemVar, cv) # {}

\* C25: the run of a workflow whose root is a Map with FailFast off in which
\* an iteration failed returns (it has returned or a step is possible); when
\* it has returned, all N items have been executed, CollectVar holds one
\* output per successful iteration that has one, and the error returned is
\* that of the failed iteration whose completion was observed first.
C25_NoFailFastRunsAllThenFails ==
    (started /\ RootMap(FALSE) /\ Failed # {}) =>
        /\ outcome.done \/ ENABLED Next
        /\ outcome.done =>
             /\ Cardinality(Iterations) = Len(RootItems)
             /\ \A c \in Iterations : tasks[c].st = "done"
             /\ \E c \in Failed :
                  /\ outcome.err = tasks[c].ret
                  /\ \A d \in Failed : tasks[c].obs <= tasks[d].obs
             /\ RootMapNode.CollectVar # "" =>
                  /\ <<1, RootMapNode.CollectVar, 1>> \in wlog
                  /\ Len(heap[1][RootMapNode.CollectVar].v)
                        = Cardinality({c \in Succeeded : HasOutput(c)})

\* the branches of the root Parallel that failed
FailedBranches == {c \in Branches : tasks[c].st = "done" /\ IsErr(tasks[c].ret)}

\* C26: a Parallel of which a branch failed returns the error of the failed
\* branch whose completion the selector observed first, whatever the indices
\* of the failed branches; the errors of the other failed branches are not
\* returned.
C26_ParallelReturnsFirstObservedFailure ==
    (RootIs("Parallel") /\ outcome.done /\ FailedBranches # {}) =>
        \E c \in FailedBranches :
            /\ \A d \in FailedBranches : tasks[c].obs <= tasks[d].obs
            /\ outcome.err = tasks[c].ret
            /\ \A d \in FailedBranches \ {c} : outcome.err # tasks[d].ret

\* a Parallel has returned the error of a failed branch observed before a
\* failed branch of lower index
C26_Witness ==
    /\ RootIs("Parallel") /\ outcome.done
    /\ \E c, d \in FailedBranches :
         /\ tasks[d].idx < tasks[c].idx
         /\ tasks[c].obs < tasks[d].obs
         /\ outcome.err = tasks[c].ret

\* the keys the body introduced in the clone m: absent from the outer
\* bindings at fan-out, and neither ItemVar, CollectVar nor a CollectVar_ key
Introduced(m) ==
    {k \in DOMAIN m \ DOMAIN wf.Variables :
        /\ k # RootItemVar
        /\ k # RootMapNode.CollectVar
        /\ ~HasPrefix(k, RootMapNode.CollectVar \o "_")}
\* the values the priority rule allows as the output of iteration c
Outputs(c) ==
    LET m == heap[tasks[c].bm]
        cv == RootMapNode.CollectVar
        cvi == cv \o "_" \o ToString(tasks[c].idx)
    IN IF cv \in DOMAIN m THEN {m[cv]}
       ELSE IF cvi \in DOMAIN m THEN {m[cvi]}
       ELSE {m[k] : k \in Introduced(m)}
\* the successful iterations that have an output, and the position of the
\* output of one of them among the outputs in index order
WithOutput == {c \in Succeeded : Outputs(c) # {}}
Rank(c) == Cardinality({d \in WithOutput : tasks[d].idx <= tasks[c].idx})
RootMapCollected ==
    /\ RootIs("Map") /\ outcome.done
    /\ RootMapNode.CollectVar # ""
    /\ <<1, RootMapNode.CollectVar, 1>> \in wlog

\* C27: after a Map with CollectVar has set bindings[CollectVar], the list
\* holds, in index order, one value for every successful iteration that has
\* an output, and none for the others; the output of iteration i is
\* clone[CollectVar] if present, else clone[CollectVar_i] if present, else the
\* value of a key the body introduced.
C27_CollectedByPriority ==
    RootMapCollected =>
        LET list == heap[1][RootMapNode.CollectVar].v
        IN /\ Len(list) = Cardinality(WithOutput)
           /\ \A c \in WithOutput : list[Rank(c)] \in Outputs(c)

\* a Map has collected an output taken from CollectVar_0 for iteration 0 and
\* from the key the body introduced for iteration 1
C27_Witness ==
    /\ RootMapCollected
    /\ heap[1][RootMapNode.CollectVar].v = <<StrV("B:1"), StrV("A:2")>>
    /\ \E c \in Succeeded : tasks[c].idx = 0 /\ "out_0" \in DOMAIN heap[tasks[c].bm]

\* C28: the list a Map collects is determined by the final clones of its
\* iterations: the value collected for a successful iteration is the only
\* value the collection rule allows for its clone, also when the body
\* introduced two or more keys, so that the order in which the keys of a
\* clone are visited has no effect on it.
C28_MapResultFunctionOfClones ==
    RootMapCollected =>
        LET list == heap[1][RootMapNode.CollectVar].v
        IN \A c \in WithOutput : \A v \in Outputs(c) : list[Rank(c)] = v

\* the output of iteration c came from CollectVar or CollectVar_<idx>
OutputByName(c) ==
    LET m == heap[tasks[c].bm]
        cv == RootMapNode.CollectVar
    IN cv \in DOMAIN m \/ (cv \o "_" \o ToString(tasks[c].idx)) \in DOMAIN m

\* C29: after the merge of a Map with CollectVar, a key that was the
\* collected key of a successful iteration i (the key its body introduced)
\* and that another successful iteration j, whose output came from CollectVar
\* or CollectVar_j, also wrote, is in the parent bindings with the value
\* iteration j gave it.
C29_CollectedKeyExcludedPerIteration ==
    RootMapCollected =>
        \A i, j \in Succeeded :
            (i # j /\ ~OutputByName(i) /\ OutputByName(j)) =>
                \A k \in Introduced(heap[tasks[i].bm]) \cap Introduced(heap[tasks[j].bm]) :
                    /\ k \in DOMAIN heap[1]
                    /\ heap[1][k] = heap[tasks[j].bm][k]

\* the keys of the top-level bindings that were not in the initial Variables
Added == DOMAIN heap[1] \ DOMAIN wf.Variables
RootMapSucceeded == RootMapCollected /\ ~IsErr(outcome.err)

\* C30: while a root Map with CollectVar runs, no key its collector picked
\* is added to the parent bindings; after the Map has succeeded, the parent
\* bindings have gained neither ItemVar, nor a CollectVar_ key, nor the key
\* introduced by the body of an iteration whose output it was; a parent
\* binding named like ItemVar has its initial value; and CollectVar holds a
\* list.
C30_CollectorAddsOnlyCollectVar ==
    /\ (started /\ RootIs("Map") /\ Len(tasks) > 0 /\ HasFrame(1) /\ Top(1).k = "Map") =>
          \A p \in Top(1).picked : p[2] \notin Added
    /\ RootMapSucceeded =>
          /\ RootItemVar \notin Added
          /\ RootItemVar \in DOMAIN wf.Variables =>
                heap[1][RootItemVar] = wf.Variables[RootItemVar]
          /\ \A k \in Added : ~HasPrefix(k, RootMapNode.CollectVar \o "_")
          /\ \A c \in Succeeded :
                (~OutputByName(c) /\ Cardinality(Introduced(heap[tasks[c].bm])) = 1) =>
                    Introduced(heap[tasks[c].bm]) \cap Added = {}
          /\ Added \subseteq {RootMapNode.CollectVar}
                \cup UNION {Introduced(heap[tasks[c].bm]) : c \in Succeeded}
          /\ heap[1][RootMapNode.CollectVar].t = "list"

\* a Map whose item variable shadows a parent binding has succeeded: the
\* parent binding has its initial value and only CollectVar was added
C30_Witness ==
    /\ RootMapSucceeded
    /\ RootItemVar \in DOMAIN wf.Variables
    /\ heap[1][RootItemVar] = IntV(9)
    /\ Added = {RootMapNode.CollectVar}
    /\ Len(heap[1][RootMapNode.CollectVar].v) = 2

\* an element of the root Sequence of activities has failed
RootSequenceFailed ==
    /\ started /\ RootIsActivitySequence
    /\ Len(tasks) > 0 /\ IsErr(tasks[1].ret)

\* C31: a Sequence whose element returned an error returns that error at
\* its next step, without executing another element; from the moment an
\* element of a root Sequence of activities has failed, no activity is
\* invoked, no binding changes, and what the run returns is that error.
C31_SequenceStopsAtFirstError ==
    [][/\ \A t \in TaskIds :
            (At(t, "Sequence", "ret") /\ IsErr(tasks[t].ret) /\ tasks'[t] # tasks[t]) =>
                /\ tasks'[t].stack = SubSeq(tasks[t].stack, 1, Len(tasks[t].stack) - 1)
                /\ tasks'[t].ret = tasks[t].ret
       /\ RootSequenceFailed =>
            /\ log' = log
            /\ heap' = heap
            /\ tasks'[1].ret = tasks[1].ret
            /\ outcome'.done => outcome'.err = tasks[1].ret]_vars

\* the run of a Sequence of three activities has returned the error of the
\* first one, the only activity invoked
C31_Witness ==
    /\ RootSequenceFailed /\ outcome.done
    /\ Len(Elements) = 3 /\ Len(log) = 1
    /\ outcome.err = tasks[1].ret
    /\ outcome.err.name = Elements[1].Activity[1].Name

\* the root is a While whose body is an Activity node
RootWhileOfActivity ==
    /\ RootIs("While")
    /\ Len(wf.Root[1].While[1].Body[1].Activity) > 0
\* scenario 4 of the specification, with or without a sleep between iterations
Scenario4 ==
    /\ RootWhileOfActivity
    /\ DOMAIN wf.Variables = {"approved"}
    /\ wf.Variables["approved"] = BoolV(FALSE)
    /\ wf.Root[1].While[1].Cond = NotCond(TruthyCond(RefVal("approved")))
    /\ wf.Root[1].While[1].Body[1].Activity[1] = ActivityInvocation("MockApprove", <<>>, "approved")
    /\ wf.Root[1].While[1].MaxIters = 3
\* the trace tr without the events of its sleeps
RECURSIVE Awake(_)
Awake(tr) ==
    IF tr = <<>> THEN <<>>
    ELSE IF tr[1] \in {"sleep", "woke", "canceled"} THEN Awake(Tail(tr))
    ELSE <<tr[1]>> \o Awake(Tail(tr))

\* C32: in a While every body execution directly follows an evaluation of
\* the condition that was true; an evaluation that is false ends the loop
\* with success and nothing follows it; the evaluation made last agrees with
\* the condition in the bindings the last body execution left.  Scenario 4
\* (approved=false, not(truthy(approved)), MaxIters 3, body MockApprove ->
\* approved) never ends with the max-iterations error, and when it succeeds
\* the body has run exactly once and approved is true.
C32_WhileReevaluatesCondition ==
    (started /\ RootWhileOfActivity) =>
        LET tr == Awake(tasks[1].trace)
            n == Len(tr)
            c == evalCond(wf.Root[1].While[1].Cond, heap[1])
        IN /\ \A i \in 1..n : tr[i] = "body" => (i > 1 /\ tr[i - 1] = "T")
           /\ \A i \in 1..n : tr[i] \in {"F", "E"} => i = n
           /\ \A i \in 1..n : (tr[i] = "T" /\ i < n) => tr[i + 1] = "body"
           /\ (n > 0 /\ tr[n] # "body") => tr[n] = CondEvent(c)
           /\ (n > 0 /\ tr[n] = "F") => ~IsErr(tasks[1].ret)
           /\ (outcome.done /\ ~IsErr(outcome.err)) => (n > 0 /\ tr[n] = "F")
           /\ Scenario4 =>
                /\ outcome.err.e # "while exceeded MaxIters"
                /\ (outcome.done /\ ~IsErr(outcome.err)) =>
                      /\ tr = <<"T", "body", "F">>
                      /\ Len(log) = 1
                      /\ heap[1]["approved"] = BoolV(TRUE)

\* scenario 4 has succeeded after one execution of the body
C32_Witness ==
    /\ started /\ Scenario4
    /\ outcome.done /\ ~IsErr(outcome.err)
    /\ Count(tasks[1].trace, "body") = 1
    /\ heap[1]["approved"] = BoolV(TRUE)

\* the evaluation of the Value v fails in the bindings b: v is a ref that
\* is not bound, or it has neither a ref nor a literal
FailsIn(v, b) ==
    \/ v.Ref # "" /\ v.Ref \notin DOMAIN b
    \/ v.Ref = "" /\ NoFieldSet(v)

\* C33: the step of an Activity node of which some argument fails to
\* evaluate (a ref that is not bound, an empty value) returns an error to the
\* caller of the node, invokes no activity and changes no binding; the step
\* of a node whose arguments all evaluate invokes the activity once.
C33_ArgumentErrorFailsNode ==
    [][\A t \in TaskIds :
          (At(t, "Activity", "start") /\ tasks'[t] # tasks[t]) =>
              LET a == Top(t).a
                  b == Bindings(t)
              IN IF \E i \in 1..Len(a.Args) : FailsIn(a.Args[i], b)
                 THEN /\ log' = log
                      /\ heap' = heap
                      /\ tasks'[t].stack = SubSeq(tasks[t].stack, 1, Len(tasks[t].stack) - 1)
                      /\ tasks'[t].ret.e \in {"ref not found", "empty value"}
                      /\ tasks'[t].ret.name = a.Name
                 ELSE /\ Len(log') = Len(log) + 1
                      /\ log'[Len(log')].name = a.Name
                      /\ heap' = heap]_vars

\* the run of a root activity whose second argument is an unbound ref has
\* returned the error, with no activity invoked and the bindings as they were
C33_Witness ==
    /\ started /\ RootIs("Activity") /\ outcome.done
    /\ Len(wf.Root[1].Activity[1].Args) = 2
    /\ ~FailsIn(wf.Root[1].Activity[1].Args[1], wf.Variables)
    /\ FailsIn(wf.Root[1].Activity[1].Args[2], wf.Variables)
    /\ outcome.err.e = "ref not found"
    /\ log = <<>> /\ heap[1] = wf.Variables

\* C34: the step in which the activity of an Activity node completes
\* changes at most the bindings of the node's own scope, and those only by
\* setting bindings[Result] to the value the activity returned, when the
\* activity succeeded and Result is not empty; when the activity failed or
\* Result is empty no binding changes.  The scope of a Parallel branch or Map
\* iteration is a map other than that of its parent, so the parent bindings
\* are as they were after the write.
C34_ActivityWritesOnlyResult ==
    [][\A t \in TaskIds :
          (tasks[t].st = "act" /\ tasks'[t].st # "act") =>
              LET a == Top(t).a
                  m == tasks[t].bm
              IN /\ Len(heap') = Len(heap)
                 /\ \A j \in 1..Len(heap) : j # m => heap'[j] = heap[j]
                 /\ heap'[m] = IF ~IsErr(tasks'[t].ret) /\ a.Result # ""
                               THEN Put(heap[m], a.Result, Activities(a.Name, Top(t).args).val)
                               ELSE heap[m]
                 /\ tasks[t].op \in {"Parallel", "Map"} =>
                       /\ tasks[tasks[t].by].bm # m
                       /\ heap'[tasks[tasks[t].by].bm] = heap[tasks[tasks[t].by].bm]]_vars

\* an iteration of a Map has written the result of its activity into its own
\* bindings while the bindings of the Map do not have the key
C34_Witness ==
    \E c \in TaskIds :
        /\ tasks[c].op = "Map" /\ tasks[c].st = "done" /\ ~IsErr(tasks[c].ret)
        /\ HasFrame(tasks[c].by) /\ Top(tasks[c].by).k = "Map" /\ Top(tasks[c].by).pc = "loop"
        /\ "page" \in DOMAIN heap[tasks[c].bm]
        /\ "page" \notin DOMAIN heap[tasks[tasks[c].by].bm]

(***************************************************************************)
(* Options of an activity.                                                  *)
(***************************************************************************)
\* the ambient options with exactly the fields overridden to which o gives a
\* positive value, those of the retry policy included
Overridden(parent, o) ==
    [mergeActOpts(parent, o) EXCEPT !.RetryPolicy =
        IF Len(o.Retry) = 0 \/ Len(parent.RetryPolicy) = 0 THEN @
        ELSE LET r == o.Retry[1]
                 p == parent.RetryPolicy[1]
             IN <<[MaximumAttempts |-> IF r.MaxAttempts > 0 THEN r.MaxAttempts
                                       ELSE p.MaximumAttempts,
                   InitialInterval |-> IF r.InitialIntervalSec > 0 THEN r.InitialIntervalSec
                                       ELSE p.InitialInterval,
                   MaximumInterval |-> IF r.MaxIntervalSec > 0 THEN r.MaxIntervalSec
                                       ELSE p.MaximumInterval,
                   BackoffCoefficient |-> IF r.BackoffCoefficient > 0 THEN r.BackoffCoefficient
                                          ELSE p.BackoffCoefficient]>>]

\* C35: an activity with Opts runs with the ambient options in which exactly
\* the fields are overridden to which Opts gives a positive or non-nil value,
\* every other field, those of the retry policy included, keeping the ambient
\* value; an activity without Opts runs with the ambient options
C35_OptsOverrideFieldwise ==
    \A j \in 1..Len(log) :
        log[j].opts = IF Len(log[j].own) > 0
                      THEN Overridden(GetActivityOptions(wf), log[j].own[1])
                      ELSE GetActivityOptions(wf)

(***************************************************************************)
(* The forms of a condition.                                                *)
(***************************************************************************)
Forms == <<"Not", "All", "Any", "Truthy", "Eq", "Ne">>
\* the forms of c that are set, in the order of Forms
SetForms(c) == SelectSeq(Forms, LAMBDA f : Len(c[f]) > 0)
\* c with the form f alone
Only(c, f) == [g \in DOMAIN EmptyCond |-> IF g = f THEN c[g] ELSE <<>>]
\* the outcome of the first form of c that is set
FirstFormOutcome(c, b) ==
    IF SetForms(c) = <<>> THEN [val |-> FALSE, err |-> "empty condition"]
    ELSE evalCond(Only(c, SetForms(c)[1]), b)
RootCond == wf.Root[1].If[1].Cond
RootIfEvaluated == started /\ RootIs("If") /\ tasks[1].trace # <<>>

\* C36: evalCond returns the outcome of the first form set in the order Not,
\* All, Any, Truthy, Eq, Ne, whatever the other forms are; a condition with no
\* form set fails with "empty condition"; the error of the sub-condition of a
\* Not is the error of the Not.  Observed on the root If: what it saw, and the
\* error it returned.
C36_FirstSetFormDecides ==
    RootIfEvaluated =>
        LET r == FirstFormOutcome(RootCond, wf.Variables)
            Refused(e) == /\ tasks[1].trace[1] = "E"
                         /\ outcome.done =>
                               outcome.err = Err("if condition eval failed", e, 1)
        IN /\ tasks[1].trace[1] = CondEvent(r)
           /\ r.err # "" => Refused(r.err)
           /\ SetForms(RootCond) = <<>> => Refused("empty condition")
           /\ Len(RootCond.Not) > 0 =>
                 LET sub == evalCond(RootCond.Not[1], wf.Variables)
                 IN sub.err # "" => Refused(sub.err)

\* the root If has evaluated a condition with two forms set, of which the
\* second alone has another outcome than the one the If saw
C36_Witness ==
    /\ RootIfEvaluated /\ outcome.done
    /\ Len(SetForms(RootCond)) = 2
    /\ CondEvent(evalCond(Only(RootCond, SetForms(RootCond)[2]), wf.Variables))
          # tasks[1].trace[1]

(***************************************************************************)
(* The variables the parent held before fan-out.                            *)
(***************************************************************************)
RootFanOut == RootIs("Parallel") \/ RootIs("Map")
Children == Branches \cup Iterations
AllSucceeded == \A c \in Children : tasks[c].st = "done" /\ ~IsErr(tasks[c].ret)
WriteConflict == outcome.err.e \in {"written by multiple branches",
                                     "written by multiple map iterations"}
\* child c has assigned k and ended with another value under k than the
\* parent had
Differs(c, k) ==
    /\ <<tasks[c].bm, k, c>> \in wlog
    /\ ~deepEqualNumberAware(wf.Variables[k], heap[tasks[c].bm][k])
RootCollectVar == IF RootIs("Map") THEN RootMapNode.CollectVar ELSE ""
\* the keys the merge of the root Map does not look at
Exempt(k) ==
    /\ RootIs("Map")
    /\ \/ k = RootItemVar
       \/ RootCollectVar # "" /\ (k = RootCollectVar \/ HasPrefix(k, RootCollectVar \o "_"))

\* C37 as stated: after a successful root Parallel or Map every variable of
\* the initial bindings has its initial value, and when all branches or
\* iterations succeeded and one of them ended with a different value under
\* such a variable, the operator has returned a write conflict.
C37_PreExistingKept ==
    (outcome.done /\ RootFanOut) =>
        /\ ~IsErr(outcome.err) => \A k \in DOMAIN wf.Variables : heap[1][k] = wf.Variables[k]
        /\ (Children # {} /\ AllSucceeded
               /\ \E c \in Children : \E k \in DOMAIN wf.Variables : Differs(c, k))
              => WriteConflict

\* C37: after a successful root Parallel or Map every variable of the initial
\* bindings other than CollectVar has its initial value, and CollectVar, when
\* set, holds a list; when all branches or iterations succeeded and one of
\* them ended with a different value under a variable of the initial
\* bindings that is neither ItemVar, nor CollectVar, nor prefixed with
\* CollectVar_, the operator has returned a write conflict.
C37_PreExistingKeptUnlessExempt ==
    (outcome.done /\ RootFanOut) =>
        /\ ~IsErr(outcome.err) =>
              /\ \A k \in DOMAIN wf.Variables \ {RootCollectVar} : heap[1][k] = wf.Variables[k]
              /\ RootCollectVar # "" => heap[1][RootCollectVar].t = "list"
        /\ (Children # {} /\ AllSucceeded
               /\ \E c \in Children : \E k \in DOMAIN wf.Variables :
                      ~Exempt(k) /\ Differs(c, k))
              => WriteConflict

\* two or more children have all succeeded, a single one of them has ended
\* with a different value under a variable of the initial bindings, and the
\* operator has returned a write conflict
C37_Witness ==
    /\ outcome.done /\ RootFanOut /\ AllSucceeded /\ WriteConflict
    /\ Cardinality(Children) >= 2
    /\ \E c \in Children : \E k \in DOMAIN wf.Variables :
          /\ ~Exempt(k) /\ Differs(c, k)
          /\ \A d \in Children \ {c} : \A j \in DOMAIN wf.Variables : ~Differs(d, j)

(***************************************************************************)
(* Malformed statements at run time.                                        *)
(***************************************************************************)
MalformedErrors == {"invalid statement: empty", "sequence has nil element"}

\* C38: in a run of a workflow that validate accepts, no coroutine has
\* dereferenced a nil statement (a nil element, branch, Body, Then or Else),
\* no statement has returned "invalid statement: empty" or "sequence has nil
\* element", and the run has not returned one of them.
C38_ValidatedNeverMalformed ==
    validate(wf) = "" =>
        /\ \A t \in TaskIds : tasks[t].st # "panic" /\ tasks[t].ret.e \notin MalformedErrors
        /\ outcome.err.e \notin MalformedErrors

\* a Sequence with a nested Sequence and a nested Parallel has run to its
\* end without an error
C38_Witness ==
    /\ RootIs("Sequence") /\ outcome.done /\ ~IsErr(outcome.err)
    /\ \E i \in 1..Len(Elements) : Len(Elements[i].Sequence) > 0
    /\ \E i \in 1..Len(Elements) : Len(Elements[i].Parallel) > 0

(***************************************************************************)
(* The sleep of a While.                                                    *)
(***************************************************************************)
RootWhile == wf.Root[1].While[1]

\* C39: in a While with SleepSeconds > 0 whose body is an activity, the
\* coroutine sleeps after every execution of the body that returned no error
\* and before the condition is evaluated again: a condition follows a body
\* only through a sleep and what the sleep returned.  What the sleep returned,
\* a cancellation error included, leaves the While in its loop, one iteration
\* further, and the next thing it does is to evaluate the condition; the
\* While never returns the error of a sleep.  With SleepSeconds = 0 there is
\* no sleep.
C39_SleepErrorIgnored ==
    (started /\ RootWhileOfActivity) =>
        LET tr == tasks[1].trace
            n == Len(tr)
            Conds == {"T", "F", "E"}
        IN /\ RootWhile.SleepSeconds <= 0 => Count(tr, "sleep") = 0
           /\ RootWhile.SleepSeconds > 0 =>
                 /\ \A i \in 1..(n - 1) : tr[i] = "body" => tr[i + 1] = "sleep"
                 /\ (n > 0 /\ tr[n] = "body") =>
                       \/ tasks[1].st # "done" /\ Top(1).k # "While"
                       \/ tasks[1].st # "done" /\ Top(1).pc = "ret"
                       \/ IsErr(tasks[1].ret)
           /\ \A i \in 1..(n - 1) : tr[i] = "sleep" => tr[i + 1] \in SleepOutcomes
           /\ \A i \in 1..(n - 1) : tr[i] \in SleepOutcomes => tr[i + 1] \in Conds
           /\ \A i \in 2..n : tr[i] \in SleepOutcomes => tr[i - 1] = "sleep"
           /\ (n > 0 /\ tr[n] = "sleep") => tasks[1].st = "sleep"
           /\ (n > 0 /\ tr[n] \in SleepOutcomes) =>
                 /\ At(1, "While", "loop")
                 /\ Top(1).iter = Count(tr, "body")
                 /\ ~IsErr(tasks[1].ret)
           /\ outcome.err.e # "canceled"

\* a While has gone on after a sleep that returned a cancellation error: it
\* has evaluated its condition again and executed its body again
C39_Witness ==
    /\ started /\ RootWhileOfActivity
    /\ \E i \in 1..Len(tasks[1].trace) :
          /\ tasks[1].trace[i] = "canceled"
          /\ i + 2 <= Len(tasks[1].trace)
          /\ tasks[1].trace[i + 1] = "T"
          /\ tasks[1].trace[i + 2] = "body"

(***************************************************************************)
(* The validator of the web UI.                                             *)
(***************************************************************************)
\* C40: the web UI answers a request with a validation error if and only if
\* the validate of the engine returns an error for the same workflow: a
\* workflow the web UI refused is one SimpleDSLWorkflow returns at the
\* validation, and a workflow it accepted is one SimpleDSLWorkflow executes.
C40_ValidatorsAgree ==
    response.handled =>
        /\ response.Success <=> validate(wf) = ""
        /\ (webui_validate(wf) = "") <=> (validate(wf) = "")
        /\ started => (~response.Success <=> Rejected)

\* the web UI has refused, and SimpleDSLWorkflow has returned at the
\* validation, a workflow whose root is an If with an Else
C40_Witness ==
    /\ response.handled /\ ~response.Success
    /\ Rejected
    /\ Len(wf.Root) > 0 /\ Len(wf.Root[1].If) > 0 /\ Len(wf.Root[1].If[1].Else) > 0

====
